---- MODULE Spec2Model ----
(***************************************************************************)
(* Model of the refinement engine of p2picks_football:                     *)
(*   server/src/data/helpers.py and server/src/data/refined_live_stats.py  *)
(*                                                                         *)
(* JSON values (what json.load returns) are tagged records, so that values *)
(* of different Python types can sit in one place and be compared:         *)
(*   None  <<"null">>                int   <<"num", 5>>                    *)
(*   str   <<"str", "a">>            float <<"float", "12.5">>             *)
(*   bool  <<"bool", TRUE>>                                                *)
(*   list  <<"list", <<...>> >>                                            *)
(*   dict  <<"obj", ("key" :> value @@ ...)>>                              *)
(* A Python exception leaving a function is the value Raise.               *)
(***************************************************************************)
EXTENDS Integers, Sequences, FiniteSets, TLC

VARIABLES
    \* ---- pure-function harness (refine_boxscore, _merge_roster_zero_init)
    phase,        \* position of the harness: "input", "refined", "merged", "merged2", "raised"
    raw,          \* the raw payload handed to refine_boxscore
    roster_map,   \* the roster map handed to _merge_roster_zero_init
    refined,      \* result of refine_boxscore(raw, event_id)
    merged,       \* result of _merge_roster_zero_init(refined, roster_map)
    merged2,      \* result of _merge_roster_zero_init(merged, roster_map)
    call,         \* a call of one helper function: its name and its arguments
    ret,          \* what the call returned
    \* ---- the poller (main_loop) and the two directories
    rawStore,     \* nfl_raw_live_stats/: per game no file, an unreadable file, or a payload
    rosterStore,  \* nfl_rosters/: the roster files
    files,        \* the output directory: per file name no file, or a content
    pc,           \* position of main_loop
    ids,          \* ids = list_source_games() of the running cycle
    idx,          \* position of "for gid in ids"
    tick,         \* tick of main_loop, also the clock read by now_iso()
    max_ticks,    \* the argument max_ticks: None or a number
    cur,          \* the document handed to write_json
    gone,         \* per game: its raw file was removed and will not come back
    envSteps,     \* changes made to nfl_raw_live_stats/ so far
    \* ---- history, for the properties
    lastw,        \* the write_json call that has just returned: game, outcome, files before
    cleaned,      \* the cleanup of the running cycle: source ids, files before, failures, count
    cyc,          \* per game what the running cycle did with it
    \* ---- rosters.py
    po            \* a run of process_once: its arguments, its workers and its counters

pure_vars == <<phase, raw, roster_map, refined, merged, merged2, call, ret, po>>

----------------------------------------------------------------------------
(* JSON values and the Python operations the code applies to them *)

JNull == <<"null">>
JNum(n) == <<"num", n>>
JFloat(s) == <<"float", s>>
JStr(s) == <<"str", s>>
JBool(b) == <<"bool", b>>
JList(s) == <<"list", s>>
JObj(f) == <<"obj", f>>
EmptyMap == [k \in {} |-> JNull]
EmptyObj == JObj(EmptyMap)
Raise == <<"raise">>

\* The result of a function that may raise is Raise or a tagged value: a JSON
\* value as it is, any other value x as Ok(x)
Ok(x) == <<"ok", x>>
Raised(r) == r[1] = "raise"

\* Sequencing of statements: With(x, G) is G of the value x; Then(r, G) is G of
\* the value of r unless the statement that gave r raised
With(x, G(_)) == G(x)
Then(r, G(_)) == IF Raised(r) THEN Raise ELSE G(r[2])

IsObj(x) == x[1] = "obj"
IsList(x) == x[1] = "list"
IsStr(x) == x[1] = "str"

\* bool(x)
Truthy(x) ==
    CASE x[1] = "null" -> FALSE
      [] x[1] = "num" -> x[2] # 0
      [] x[1] = "float" -> x[2] \notin {"0.0", "-0.0"}
      [] x[1] = "str" -> x[2] # ""
      [] x[1] = "bool" -> x[2]
      [] x[1] = "list" -> Len(x[2]) > 0
      [] x[1] = "obj" -> DOMAIN x[2] # {}
      [] OTHER -> TRUE

\* a or b
Or(a, b) == IF Truthy(a) THEN a ELSE b

\* x.get(k, d): AttributeError unless x is a dict
GetD(x, k, d) ==
    IF ~IsObj(x) THEN Raise
    ELSE IF k \in DOMAIN x[2] THEN x[2][k] ELSE d

\* x.get(k)
Get(x, k) == GetD(x, k, JNull)

\* the looked-up keys that a text of the model contains as substrings
KeysInText(s) ==
    CASE s = "players teams" -> {"players", "teams"}
      [] s = "boxscore" -> {"boxscore"}
      [] OTHER -> {}

\* k in x, for the keys the code looks up: a dict looks at its keys, a list at
\* its elements, a str at its substrings; a number, a bool or None raises TypeError
In(k, x) ==
    CASE x[1] = "obj" -> JBool(k \in DOMAIN x[2])
      [] x[1] = "list" -> JBool(\E i \in DOMAIN x[2] : x[2][i] = JStr(k))
      [] x[1] = "str" -> JBool(k \in KeysInText(x[2]))
      [] OTHER -> Raise

\* the keys of a dict in iteration order (the model's dicts are iterated only
\* where every element takes the same path)
RECURSIVE KeySeq(_)
KeySeq(ks) ==
    IF ks = {} THEN << >>
    ELSE LET k == CHOOSE x \in ks : TRUE IN <<JStr(k)>> \o KeySeq(ks \ {k})

\* for e in x: a list gives its elements, a dict its keys, a str its characters
\* (each a str); None, a number or a bool raises TypeError
Iter(x) ==
    CASE x[1] = "list" -> Ok(x[2])
      [] x[1] = "obj" -> Ok(KeySeq(DOMAIN x[2]))
      [] x[1] = "str" -> Ok(IF x[2] = "" THEN << >> ELSE <<JStr("c")>>)
      [] OTHER -> Raise

----------------------------------------------------------------------------
(* helpers.py *)

DEFAULT_CATEGORIES ==
    "passing" :> (
        "completions/passingAttempts" :> JStr("0/0") @@
        "passingYards" :> JNum(0) @@
        "yardsPerPassAttempt" :> JNum(0) @@
        "passingTouchdowns" :> JNum(0) @@
        "interceptions" :> JNum(0) @@
        "sacks-sackYardsLost" :> JStr("0-0") @@
        "adjQBR" :> JNum(0) @@
        "QBRating" :> JNum(0)) @@
    "rushing" :> (
        "rushingAttempts" :> JNum(0) @@
        "rushingYards" :> JNum(0) @@
        "yardsPerRushAttempt" :> JNum(0) @@
        "rushingTouchdowns" :> JNum(0) @@
        "longRushing" :> JNum(0)) @@
    "receiving" :> (
        "receptions" :> JNum(0) @@
        "receivingYards" :> JNum(0) @@
        "yardsPerReception" :> JNum(0) @@
        "receivingTouchdowns" :> JNum(0) @@
        "longReception" :> JNum(0) @@
        "receivingTargets" :> JNum(0)) @@
    "fumbles" :> (
        "fumbles" :> JNum(0) @@
        "fumblesLost" :> JNum(0) @@
        "fumblesRecovered" :> JNum(0)) @@
    "defensive" :> (
        "totalTackles" :> JNum(0) @@
        "soloTackles" :> JNum(0) @@
        "sacks" :> JNum(0) @@
        "tacklesForLoss" :> JNum(0) @@
        "passesDefended" :> JNum(0) @@
        "QBHits" :> JNum(0) @@
        "defensiveTouchdowns" :> JNum(0)) @@
    "interceptions" :> (
        "interceptions" :> JNum(0) @@
        "interceptionYards" :> JNum(0) @@
        "interceptionTouchdowns" :> JNum(0)) @@
    "kickReturns" :> (
        "kickReturns" :> JNum(0) @@
        "kickReturnYards" :> JNum(0) @@
        "yardsPerKickReturn" :> JNum(0) @@
        "longKickReturn" :> JNum(0) @@
        "kickReturnTouchdowns" :> JNum(0)) @@
    "puntReturns" :> (
        "puntReturns" :> JNum(0) @@
        "puntReturnYards" :> JNum(0) @@
        "yardsPerPuntReturn" :> JNum(0) @@
        "longPuntReturn" :> JNum(0) @@
        "puntReturnTouchdowns" :> JNum(0)) @@
    "kicking" :> (
        "fieldGoalsMade/fieldGoalAttempts" :> JStr("0/0") @@
        "fieldGoalPct" :> JNum(0) @@
        "longFieldGoalMade" :> JNum(0) @@
        "extraPointsMade/extraPointAttempts" :> JStr("0/0") @@
        "totalKickingPoints" :> JNum(0)) @@
    "punting" :> (
        "punts" :> JNum(0) @@
        "puntYards" :> JNum(0) @@
        "grossAvgPuntYards" :> JNum(0) @@
        "touchbacks" :> JNum(0) @@
        "puntsInside20" :> JNum(0) @@
        "longPunt" :> JNum(0))

\* str.strip() on the texts of the model
Strip(s) ==
    CASE s = " DNP " -> "DNP"
      [] s = " 7 " -> "7"
      [] s = " " -> ""
      [] OTHER -> s

\* str.replace(",", "") on the texts of the model
RemoveCommas(s) ==
    CASE s = "1,234" -> "1234"
      [] OTHER -> s

\* int(s) for the texts of the model that int() accepts
IntTexts ==
    "0" :> 0 @@ "1" :> 1 @@ "2" :> 2 @@ "3" :> 3 @@ "4" :> 4 @@ "5" :> 5 @@
    "6" :> 6 @@ "7" :> 7 @@ "12" :> 12 @@ "40" :> 40 @@ "1234" :> 1234 @@ "-3" :> -3

\* float(s) for the texts of the model that float() accepts and int() does not
FloatTexts == "12.5" :> "12.5" @@ "0.0" :> "0.0" @@ "8.0" :> "8.0" @@ "nan" :> "nan"

\* str(val)
PyStr(val) ==
    CASE val[1] = "str" -> val[2]
      [] val[1] = "num" -> ToString(val[2])
      [] val[1] = "float" -> val[2]
      [] val[1] = "bool" -> IF val[2] THEN "True" ELSE "False"
      [] val[1] = "null" -> "None"
      [] OTHER -> "<repr>"

coerce_number(val) ==
    IF val[1] = "null" THEN JNum(0)
    ELSE IF val[1] \in {"num", "float", "bool"} THEN val
    ELSE LET s == Strip(PyStr(val))
             s2 == RemoveCommas(s)
         IN  IF s \in {"", "--", "-", "N/A"} THEN JNum(0)
             ELSE IF s2 \in DOMAIN IntTexts THEN JNum(IntTexts[s2])
             ELSE IF s2 \in DOMAIN FloatTexts THEN JFloat(FloatTexts[s2])
             ELSE JStr(s)

----------------------------------------------------------------------------
(* refined_live_stats.py: parsing one category record *)

\* a Python dict comprehension {k: f(i, k) for i, k in enumerate(keys)}:
\* a later duplicate of a key overwrites the earlier value
RECURSIVE PairKeys(_, _, _)
PairKeys(keys, vals, i) ==
    IF i > Len(keys) THEN << >>
    ELSE LET rest == PairKeys(keys, vals, i + 1)
             k == keys[i][2]
             v == IF i <= Len(vals) THEN coerce_number(vals[i]) ELSE JNum(0)
         IN  IF k \in DOMAIN rest THEN rest ELSE (k :> v) @@ rest

CoerceAll(d) == [k \in DOMAIN d |-> coerce_number(d[k])]

\* stat_cat.get("keys") or []
KeysOf(stat_cat) == LET k == Get(stat_cat, "keys") IN IF Truthy(k) THEN k ELSE JList(<< >>)

parse_athlete_stats_for_category(stat_cat, athlete_entry) ==
    IF ~IsObj(stat_cat) \/ ~IsObj(athlete_entry) THEN Raise
    ELSE LET keys == KeysOf(stat_cat)
             stats_val == Get(athlete_entry, "stats")
             totals == Get(athlete_entry, "totals")
         IN  IF IsList(stats_val) /\ Truthy(keys) THEN Ok(PairKeys(keys[2], stats_val[2], 1))
             ELSE IF IsObj(stats_val) THEN Ok(CoerceAll(stats_val[2]))
             ELSE IF IsList(totals) /\ Truthy(keys) THEN Ok(PairKeys(keys[2], totals[2], 1))
             ELSE Ok(<< >>)

parse_category_totals(stat_cat) ==
    IF ~IsObj(stat_cat) THEN Raise
    ELSE LET keys == KeysOf(stat_cat)
             totals == Get(stat_cat, "totals")
         IN  IF IsList(totals) /\ Truthy(keys) THEN Ok(PairKeys(keys[2], totals[2], 1))
             ELSE IF IsObj(totals) THEN Ok(CoerceAll(totals[2]))
             ELSE Ok(<< >>)

init_target_stats ==
    [cat \in DOMAIN DEFAULT_CATEGORIES |->
        [k \in DOMAIN DEFAULT_CATEGORIES[cat] |->
            IF IsStr(DEFAULT_CATEGORIES[cat][k]) THEN DEFAULT_CATEGORIES[cat][k] ELSE JNum(0)]]

----------------------------------------------------------------------------
(* refined_live_stats.py: _apply_category_mappings *)

\* str.lower() on the category names of the model
Lower(s) ==
    CASE s = "Passing" -> "passing"
      [] s = "DEFENSE" -> "defense"
      [] s = "kickReturns" -> "kickreturns"
      [] s = "puntReturns" -> "puntreturns"
      [] OTHER -> s

\* parsed.get(name)
PGet(parsed, name) == IF name \in DOMAIN parsed THEN parsed[name] ELSE JNull

\* nz(name) of _apply_category_mappings
Nz(parsed, name) == coerce_number(PGet(parsed, name))

\* nz(a) or nz(b)
Nz2(parsed, a, b) == Or(Nz(parsed, a), Nz(parsed, b))

\* format a value inside an f-string
Fmt(val) == PyStr(val)

\* target[cat][field] = val
SetStat(target, cat, field, val) == [target EXCEPT ![cat][field] = val]

\* a combined field that prefers the components to the raw combined value
Combined_components_first(target, parsed, cat, field, a, b, sep) ==
    IF Truthy(a) \/ Truthy(b)
    THEN SetStat(target, cat, field, JStr(Fmt(a) \o sep \o Fmt(b)))
    ELSE IF PGet(parsed, field) # JNull /\ Strip(PyStr(PGet(parsed, field))) # ""
         THEN SetStat(target, cat, field, PGet(parsed, field))
         ELSE target

\* a combined field that is synthesized also from two zero components
Combined_always_synthesized(target, parsed, cat, field, a, b, sep) ==
    IF PGet(parsed, field) # JNull /\ Strip(PyStr(PGet(parsed, field))) # ""
    THEN SetStat(target, cat, field, PGet(parsed, field))
    ELSE SetStat(target, cat, field, JStr(Fmt(a) \o sep \o Fmt(b)))

\* a combined field: the raw combined value verbatim when present and not blank,
\* else "{a}{sep}{b}" from the components when one of them is non-zero
Combined(target, parsed, cat, field, a, b, sep) ==
    LET combo == PGet(parsed, field)
    IN  IF combo # JNull /\ Strip(PyStr(combo)) # ""
        THEN SetStat(target, cat, field, combo)
        ELSE IF Truthy(a) \/ Truthy(b)
             THEN SetStat(target, cat, field, JStr(Fmt(a) \o sep \o Fmt(b)))
             ELSE target

map_passing(target, p) ==
    LET t1 == Combined(target, p, "passing", "completions/passingAttempts",
                       Nz(p, "completions"), Nz(p, "attempts"), "/")
        t2 == SetStat(t1, "passing", "passingYards", Nz2(p, "passingYards", "yards"))
        t3 == SetStat(t2, "passing", "yardsPerPassAttempt",
                      Nz2(p, "yardsPerPassAttempt", "yardsPerAttempt"))
        t4 == SetStat(t3, "passing", "passingTouchdowns", Nz2(p, "passingTouchdowns", "touchdowns"))
        t5 == SetStat(t4, "passing", "interceptions", Nz(p, "interceptions"))
        t6 == Combined(t5, p, "passing", "sacks-sackYardsLost",
                       Nz(p, "sacks"), Nz2(p, "sackYardsLost", "sackYards"), "-")
        t7 == SetStat(t6, "passing", "adjQBR", Nz2(p, "adjQBR", "qbr"))
    IN  SetStat(t7, "passing", "QBRating",
                Or(Nz(p, "QBRating"), Nz2(p, "rating", "passerRating")))

map_rushing(target, p) ==
    LET t1 == SetStat(target, "rushing", "rushingAttempts", Nz2(p, "rushingAttempts", "attempts"))
        t2 == SetStat(t1, "rushing", "rushingYards", Nz2(p, "rushingYards", "yards"))
        t3 == SetStat(t2, "rushing", "yardsPerRushAttempt",
                      Nz2(p, "yardsPerRushAttempt", "yardsPerCarry"))
        t4 == SetStat(t3, "rushing", "rushingTouchdowns", Nz2(p, "rushingTouchdowns", "touchdowns"))
    IN  SetStat(t4, "rushing", "longRushing", Nz2(p, "longRushing", "longest"))

map_receiving(target, p) ==
    LET t1 == SetStat(target, "receiving", "receptions", Nz(p, "receptions"))
        t2 == SetStat(t1, "receiving", "receivingYards", Nz2(p, "receivingYards", "yards"))
        t3 == SetStat(t2, "receiving", "yardsPerReception", Nz(p, "yardsPerReception"))
        t4 == SetStat(t3, "receiving", "receivingTouchdowns",
                      Nz2(p, "receivingTouchdowns", "touchdowns"))
        t5 == SetStat(t4, "receiving", "longReception", Nz2(p, "longReception", "longest"))
    IN  SetStat(t5, "receiving", "receivingTargets", Nz2(p, "receivingTargets", "targets"))

map_fumbles(target, p) ==
    LET t1 == SetStat(target, "fumbles", "fumbles", Nz(p, "fumbles"))
        t2 == SetStat(t1, "fumbles", "fumblesLost", Nz2(p, "fumblesLost", "lost"))
    IN  SetStat(t2, "fumbles", "fumblesRecovered", Nz2(p, "fumblesRecovered", "recovered"))

map_defensive(target, p) ==
    LET t1 == SetStat(target, "defensive", "totalTackles", Nz2(p, "totalTackles", "tackles"))
        t2 == SetStat(t1, "defensive", "soloTackles", Nz(p, "soloTackles"))
        t3 == SetStat(t2, "defensive", "sacks", Nz(p, "sacks"))
        t4 == SetStat(t3, "defensive", "tacklesForLoss", Nz2(p, "tacklesForLoss", "tfl"))
        t5 == SetStat(t4, "defensive", "passesDefended", Nz(p, "passesDefended"))
        t6 == SetStat(t5, "defensive", "QBHits", Nz(p, "qbHits"))
        t7 == SetStat(t6, "defensive", "defensiveTouchdowns", Nz(p, "touchdowns"))
        ints == Nz(p, "interceptions")
        int_yds == Nz2(p, "interceptionYards", "yards")
        int_tds == Nz2(p, "interceptionTouchdowns", "touchdowns")
        t8 == IF Truthy(ints) THEN SetStat(t7, "interceptions", "interceptions", ints) ELSE t7
        t9 == IF Truthy(int_yds) THEN SetStat(t8, "interceptions", "interceptionYards", int_yds)
              ELSE t8
    IN  IF Truthy(int_tds) THEN SetStat(t9, "interceptions", "interceptionTouchdowns", int_tds)
        ELSE t9

map_interceptions(target, p) ==
    LET t1 == SetStat(target, "interceptions", "interceptions", Nz2(p, "interceptions", "picks"))
        t2 == SetStat(t1, "interceptions", "interceptionYards", Nz2(p, "interceptionYards", "yards"))
    IN  SetStat(t2, "interceptions", "interceptionTouchdowns",
                Nz2(p, "touchdowns", "interceptionTouchdowns"))

map_kick_returns(target, p) ==
    LET t1 == SetStat(target, "kickReturns", "kickReturns", Nz2(p, "kickReturns", "returns"))
        t2 == SetStat(t1, "kickReturns", "kickReturnYards", Nz2(p, "kickReturnYards", "yards"))
        t3 == SetStat(t2, "kickReturns", "yardsPerKickReturn", Nz2(p, "yardsPerKickReturn", "average"))
        t4 == SetStat(t3, "kickReturns", "longKickReturn", Nz2(p, "longKickReturn", "longest"))
    IN  SetStat(t4, "kickReturns", "kickReturnTouchdowns",
                Nz2(p, "kickReturnTouchdowns", "touchdowns"))

map_punt_returns(target, p) ==
    LET t1 == SetStat(target, "puntReturns", "puntReturns", Nz2(p, "puntReturns", "returns"))
        t2 == SetStat(t1, "puntReturns", "puntReturnYards", Nz2(p, "puntReturnYards", "yards"))
        t3 == SetStat(t2, "puntReturns", "yardsPerPuntReturn", Nz2(p, "yardsPerPuntReturn", "average"))
        t4 == SetStat(t3, "puntReturns", "longPuntReturn", Nz2(p, "longPuntReturn", "longest"))
    IN  SetStat(t4, "puntReturns", "puntReturnTouchdowns",
                Nz2(p, "puntReturnTouchdowns", "touchdowns"))

map_kicking(target, p) ==
    LET t1 == Combined(target, p, "kicking", "fieldGoalsMade/fieldGoalAttempts",
                       Nz(p, "fgm"), Nz(p, "fga"), "/")
        t2 == SetStat(t1, "kicking", "fieldGoalPct", Nz2(p, "fieldGoalPct", "fgPct"))
        t3 == SetStat(t2, "kicking", "longFieldGoalMade", Nz2(p, "longFieldGoalMade", "longest"))
        t4 == Combined(t3, p, "kicking", "extraPointsMade/extraPointAttempts",
                       Nz(p, "xpm"), Nz(p, "xpa"), "/")
    IN  SetStat(t4, "kicking", "totalKickingPoints", Nz2(p, "totalKickingPoints", "points"))

map_punting(target, p) ==
    LET t1 == SetStat(target, "punting", "punts", Nz(p, "punts"))
        t2 == SetStat(t1, "punting", "puntYards", Nz2(p, "puntYards", "yards"))
        t3 == SetStat(t2, "punting", "grossAvgPuntYards", Nz2(p, "grossAvgPuntYards", "average"))
        t4 == SetStat(t3, "punting", "touchbacks", Nz(p, "touchbacks"))
        t5 == SetStat(t4, "punting", "puntsInside20", Nz2(p, "puntsInside20", "inside20"))
    IN  SetStat(t5, "punting", "longPunt", Nz2(p, "longPunt", "longest"))

\* cat_name is stat_cat.get("name") or "unknown": (cat_name or "").lower() raises
\* AttributeError when the name is no str
apply_category_mappings(target, cat_name, parsed) ==
    IF DOMAIN parsed = {} THEN Ok(target)
    ELSE IF ~IsStr(Or(cat_name, JStr(""))) THEN Raise
    ELSE LET cn == Lower(Or(cat_name, JStr(""))[2])
         IN  Ok(CASE cn = "passing" -> map_passing(target, parsed)
               [] cn = "rushing" -> map_rushing(target, parsed)
               [] cn = "receiving" -> map_receiving(target, parsed)
               [] cn = "fumbles" -> map_fumbles(target, parsed)
               [] cn \in {"defense", "defensive"} -> map_defensive(target, parsed)
               [] cn = "interceptions" -> map_interceptions(target, parsed)
               [] cn = "kickreturns" -> map_kick_returns(target, parsed)
               [] cn = "puntreturns" -> map_punt_returns(target, parsed)
               [] cn = "kicking" -> map_kicking(target, parsed)
               [] cn = "punting" -> map_punting(target, parsed)
               [] OTHER -> target)

----------------------------------------------------------------------------
(* refined_live_stats.py: refine_boxscore *)

get_boxscore_root(data) ==
    IF ~Truthy(data) THEN JNull
    ELSE LET hasP == In("players", data)
             hasT == In("teams", data)
             hasB == In("boxscore", data)
         IN  IF Raised(hasP) THEN Raise
             ELSE IF hasP[2] /\ hasT[2] THEN data
             ELSE IF hasB[2] THEN Get(data, "boxscore")
             ELSE \* try: ... except Exception: pass
                  IF ~IsObj(data) THEN JNull
                  ELSE LET summary == Get(data, "summary")
                       IN  IF IsObj(summary) /\ "boxscore" \in DOMAIN summary[2]
                           THEN Get(summary, "boxscore")
                           ELSE JNull

\* str(x.get("id")) if x.get("id") is not None else ""   (x a dict)
IdText(x) == IF Get(x, "id") = JNull THEN "" ELSE PyStr(Get(x, "id"))

\* one competitor of header.competitions[].competitors[]: the maps after it,
\* or Raise when the record makes the code raise
ScoreCompetitor(acc, competitor) ==
    IF ~IsObj(competitor) THEN Raise
    ELSE LET tinfo == Or(GetD(competitor, "team", EmptyObj), EmptyObj)
         IN  IF ~IsObj(tinfo) THEN Raise
             ELSE LET tid == IdText(tinfo)
                      sc == Get(competitor, "score")
                  IN  IF tid = "" THEN Ok(acc)
                      ELSE Ok([scores |-> IF sc # JNull
                                          THEN (tid :> coerce_number(sc)) @@ acc.scores
                                          ELSE acc.scores,
                               possession_map |->
                                   (tid :> Truthy(Get(competitor, "possession"))) @@ acc.possession_map,
                               failed |-> FALSE])

\* the loops of lines 429-437 inside try/except: an exception ends them and
\* keeps what was collected so far
RECURSIVE ScoreCompetitors(_, _, _)
ScoreCompetitors(acc, items, i) ==
    IF acc.failed \/ i > Len(items) THEN acc
    ELSE LET nxt == ScoreCompetitor(acc, items[i])
         IN  IF Raised(nxt) THEN [acc EXCEPT !.failed = TRUE]
             ELSE ScoreCompetitors(nxt[2], items, i + 1)

RECURSIVE ScoreCompetitions(_, _, _)
ScoreCompetitions(acc, comps, i) ==
    IF acc.failed \/ i > Len(comps) THEN acc
    ELSE LET competitors == GetD(comps[i], "competitors", JList(<< >>))
             items == IF Raised(competitors) THEN Raise ELSE Iter(competitors)
         IN  IF Raised(items) THEN [acc EXCEPT !.failed = TRUE]
             ELSE ScoreCompetitions(ScoreCompetitors(acc, items[2], 1), comps, i + 1)

\* scores and possession_map of refine_boxscore
extract_scores(payload) ==
    LET empty == [scores |-> EmptyMap, possession_map |-> EmptyMap, failed |-> FALSE]
    IN  IF ~IsObj(payload) THEN empty
        ELSE LET header == Or(Get(payload, "header"), EmptyObj)
             IN  IF ~IsObj(header) THEN empty
                 ELSE LET comps == Or(Get(header, "competitions"), JList(<< >>))
                      IN  IF ~IsList(comps) THEN empty
                          ELSE ScoreCompetitions(empty, comps[2], 1)

extract_team_meta(team_obj) ==
    IF Raised(team_obj) THEN Raise
    ELSE IF ~Truthy(team_obj) THEN Ok([team_id |-> "", abbr |-> JStr(""), name |-> JStr("")])
    ELSE IF ~IsObj(team_obj) THEN Raise
    ELSE Ok([team_id |-> PyStr(Get(team_obj, "id")),
             abbr |-> Get(team_obj, "abbreviation"),
             name |-> Get(team_obj, "displayName")])

extract_athlete_meta(a) ==
    LET ath == IF Truthy(a) THEN GetD(a, "athlete", EmptyObj) ELSE EmptyObj
    IN  IF ~IsObj(ath) THEN Raise
        ELSE LET pos == Or(Get(ath, "position"), EmptyObj)
                 headshot == Get(ath, "headshot")
             IN  IF ~IsObj(pos) THEN Raise
                 ELSE Ok([athleteId |-> JStr(IdText(ath)),
                          fullName |-> Or(Get(ath, "displayName"), Or(Get(ath, "fullName"), JStr(""))),
                          position |-> Or(Get(pos, "abbreviation"), Or(Get(pos, "name"), JStr(""))),
                          jersey |-> Or(Get(ath, "jersey"), JStr("")),
                          headshot |-> IF IsObj(headshot)
                                       THEN Get(Or(headshot, EmptyObj), "href")
                                       ELSE JStr("")])

\* ---- ordered dicts of the model: a sequence of entries, found by their key

\* index of the team entry of team_id in teams_out, 0 when absent
TeamIndex(teams, team_id) ==
    IF \E i \in DOMAIN teams : teams[i]["teamId"] = JStr(team_id)
    THEN CHOOSE i \in DOMAIN teams : teams[i]["teamId"] = JStr(team_id)
    ELSE 0

\* scores.get(team_id, 0)
ScoreOf(scores, team_id) == IF team_id \in DOMAIN scores THEN scores[team_id] ELSE JNum(0)

\* bool(possession_map.get(team_id, False))
PossessionOf(possession_map, team_id) ==
    JBool(team_id \in DOMAIN possession_map /\ possession_map[team_id])

\* an entry of a team already in teams_out that takes the later abbreviation and name
ensure_existing_entry_overwrites(entry, team_id, abbr, name, scores, possession_map) ==
    [entry EXCEPT !["abbreviation"] = abbr, !["displayName"] = name,
                  !["possession"] = PossessionOf(possession_map, team_id)]

\* the entry of a team already in teams_out, after _ensure_team_entry
ensure_existing_entry(entry, team_id, abbr, name, scores, possession_map) ==
    LET e1 == IF Truthy(abbr) /\ ~Truthy(entry["abbreviation"])
              THEN [entry EXCEPT !["abbreviation"] = abbr] ELSE entry
        e2 == IF Truthy(name) /\ ~Truthy(e1["displayName"])
              THEN [e1 EXCEPT !["displayName"] = name] ELSE e1
        e3 == IF ~Truthy(e2["teamId"]) THEN [e2 EXCEPT !["teamId"] = JStr(team_id)] ELSE e2
        e4 == IF e3["score"] = JNull THEN [e3 EXCEPT !["score"] = ScoreOf(scores, team_id)] ELSE e3
    IN  [e4 EXCEPT !["possession"] = PossessionOf(possession_map, team_id)]

\* a new team container (lines 260-268); teams_out keys it by team_id, which
\* stays equal to its teamId
new_team_entry(team_id, abbr, name, scores, possession_map) ==
    "teamId" :> JStr(team_id) @@
    "abbreviation" :> abbr @@
    "displayName" :> name @@
    "score" :> ScoreOf(scores, team_id) @@
    "stats" :> init_target_stats @@
    "players" :> << >> @@
    "possession" :> PossessionOf(possession_map, team_id)

\* teams_out after _ensure_team_entry
ensure_team_entry(teams, team_id, abbr, name, scores, possession_map) ==
    LET i == TeamIndex(teams, team_id)
    IN  IF i # 0
        THEN [teams EXCEPT ![i] =
                ensure_existing_entry(teams[i], team_id, abbr, name, scores, possession_map)]
        ELSE Append(teams, new_team_entry(team_id, abbr, name, scores, possession_map))

\* the identity key of a player: athleteId, else "name:" + fullName
PlayerKey(p) ==
    IF Truthy(p.athleteId) THEN PyStr(p.athleteId) ELSE "name:" \o PyStr(p.fullName)

\* index of the player of key k in a players container, 0 when absent
PlayerIndex(players, k) ==
    IF \E i \in DOMAIN players : PlayerKey(players[i]) = k
    THEN CHOOSE i \in DOMAIN players : PlayerKey(players[i]) = k
    ELSE 0

\* the player container of lines 466-473
new_player(meta) ==
    [athleteId |-> meta.athleteId, fullName |-> meta.fullName, position |-> meta.position,
     jersey |-> meta.jersey, headshot |-> meta.headshot, stats |-> init_target_stats]

\* one athlete of a category (lines 457-479): the team entry after it, or Raise
refine_athlete(entry, stat_cat, cat_name, a) ==
    Then(extract_athlete_meta(a), LAMBDA meta :
    With(IF PlayerIndex(entry["players"], PlayerKey(meta)) = 0
         THEN Append(entry["players"], new_player(meta))
         ELSE entry["players"], LAMBDA players :
    With(PlayerIndex(players, PlayerKey(meta)), LAMBDA i :
    Then(parse_athlete_stats_for_category(stat_cat, a), LAMBDA parsed :
    Then(apply_category_mappings(players[i].stats, cat_name, parsed), LAMBDA stats :
         Ok([entry EXCEPT !["players"] = [players EXCEPT ![i].stats = stats]]))))))

RECURSIVE refine_athletes(_, _, _, _, _)
refine_athletes(entry, stat_cat, cat_name, athletes, i) ==
    IF i > Len(athletes) THEN Ok(entry)
    ELSE Then(refine_athlete(entry, stat_cat, cat_name, athletes[i]), LAMBDA nxt :
              refine_athletes(nxt, stat_cat, cat_name, athletes, i + 1))

\* one statistic category of a team block (lines 451-479): the team entry after it, or Raise
refine_stat_cat(entry, stat_cat) ==
    IF ~IsObj(stat_cat) THEN Raise
    ELSE With(Or(Get(stat_cat, "name"), JStr("unknown")), LAMBDA cat_name :
         Then(parse_category_totals(stat_cat), LAMBDA team_totals_parsed :
         Then(apply_category_mappings(entry["stats"], cat_name, team_totals_parsed),
              LAMBDA team_stats :
         Then(Iter(GetD(stat_cat, "athletes", JList(<< >>))), LAMBDA athletes :
              refine_athletes([entry EXCEPT !["stats"] = team_stats],
                              stat_cat, cat_name, athletes, 1)))))

RECURSIVE refine_stat_cats(_, _, _)
refine_stat_cats(entry, cats, i) ==
    IF i > Len(cats) THEN Ok(entry)
    ELSE Then(refine_stat_cat(entry, cats[i]), LAMBDA nxt :
              refine_stat_cats(nxt, cats, i + 1))

\* one element of box["players"] (lines 441-479): teams_out after it, or Raise
refine_team_block(teams, team_block, hdr) ==
    IF ~IsObj(team_block) THEN Raise
    ELSE Then(extract_team_meta(GetD(team_block, "team", EmptyObj)), LAMBDA m :
         IF m.team_id = "" THEN Ok(teams)
         ELSE With(ensure_team_entry(teams, m.team_id, m.abbr, m.name,
                                     hdr.scores, hdr.possession_map), LAMBDA teams1 :
              With(TeamIndex(teams1, m.team_id), LAMBDA i :
              Then(Iter(GetD(team_block, "statistics", JList(<< >>))), LAMBDA cats :
              Then(refine_stat_cats(teams1[i], cats, 1), LAMBDA entry :
                   Ok([teams1 EXCEPT ![i] = entry]))))))

\* one element of box["teams"] (lines 482-493): teams_out after it, or Raise
refine_team_meta_block(teams, team_block, hdr) ==
    IF ~IsObj(team_block) THEN Raise
    ELSE Then(extract_team_meta(Or(GetD(team_block, "team", EmptyObj), EmptyObj)), LAMBDA m :
         IF m.team_id = "" THEN Ok(teams)
         ELSE With(ensure_team_entry(teams, m.team_id, m.abbr, m.name,
                                     hdr.scores, hdr.possession_map), LAMBDA teams1 :
              With(TeamIndex(teams1, m.team_id), LAMBDA i :
              LET home_away == Get(team_block, "homeAway")
                  display_order == Get(team_block, "displayOrder")
                  e1 == IF Truthy(home_away)
                        THEN ("homeAway" :> home_away) @@ teams1[i] ELSE teams1[i]
                  e2 == IF display_order # JNull
                        THEN ("displayOrder" :> display_order) @@ e1 ELSE e1
              IN  Ok([teams1 EXCEPT ![i] = e2]))))

\* for team_block in box.get(key, []): teams_out after the loop, or Raise
RECURSIVE refine_blocks(_, _, _, _, _)
refine_blocks(teams, blocks, i, hdr, stat_pass) ==
    IF i > Len(blocks) THEN Ok(teams)
    ELSE Then(IF stat_pass THEN refine_team_block(teams, blocks[i], hdr)
              ELSE refine_team_meta_block(teams, blocks[i], hdr), LAMBDA nxt :
              refine_blocks(nxt, blocks, i + 1, hdr, stat_pass))

\* the stat pass of refine_boxscore (lines 441-479): teams_out after it
stat_pass(box, hdr) ==
    Then(Iter(GetD(box, "players", JList(<< >>))), LAMBDA blocks1 :
         refine_blocks(<< >>, blocks1, 1, hdr, TRUE))

\* the stat pass and the team/metadata pass of refine_boxscore (lines 441-493)
refine_teams(box, hdr) ==
    IF ~IsObj(box) THEN Raise
    ELSE Then(stat_pass(box, hdr), LAMBDA teams1 :
         Then(Iter(GetD(box, "teams", JList(<< >>))), LAMBDA blocks2 :
              refine_blocks(teams1, blocks2, 1, hdr, FALSE)))

\* str.upper() on the texts of the model
Upper(s) ==
    CASE s = "td" -> "TD"
      [] s = "fg" -> "FG"
      [] s = "s" -> "S"
      [] s = "buf" -> "BUF"
      [] s = "kc" -> "KC"
      [] s = "status_final" -> "STATUS_FINAL"
      [] s = "Status_In_Progress" -> "STATUS_IN_PROGRESS"
      [] OTHER -> s

\* (x or "").strip() followed by a case conversion: AttributeError unless x or "" is a str
StripText(x) == IF IsStr(Or(x, JStr(""))) THEN JStr(Strip(Or(x, JStr(""))[2])) ELSE Raise

\* one scoring play (lines 505-521): the counts after it, or Raise
\* one scoring play counted by type.abbreviation before scoringType.abbreviation
count_scoring_play_type_first(counts, sp) ==
    LET tid == IdText(Or(Get(sp, "team"), EmptyObj))
        abbr == Or(Get(Or(Get(sp, "type"), EmptyObj), "abbreviation"),
                   Get(Or(Get(sp, "scoringType"), EmptyObj), "abbreviation"))
    IN  IF tid \notin DOMAIN counts THEN Ok(counts)
        ELSE Ok(CASE abbr = JStr("TD") -> [counts EXCEPT ![tid].touchdowns = @ + 1]
                  [] abbr = JStr("FG") -> [counts EXCEPT ![tid].fieldGoals = @ + 1]
                  [] abbr = JStr("S") -> [counts EXCEPT ![tid].safeties = @ + 1]
                  [] OTHER -> counts)

count_scoring_play(counts, sp) ==
    IF ~IsObj(sp) THEN Ok(counts)
    ELSE LET team_obj == Or(Get(sp, "team"), EmptyObj)
             st == Or(Get(sp, "scoringType"), EmptyObj)
             tp == Or(Get(sp, "type"), EmptyObj)
         IN  IF ~IsObj(team_obj) THEN Raise
             ELSE LET tid == IdText(team_obj)
                  IN  IF tid = "" \/ tid \notin DOMAIN counts THEN Ok(counts)
                      ELSE IF ~IsObj(st) THEN Raise
                      ELSE IF ~Truthy(Get(st, "abbreviation")) /\ ~IsObj(tp) THEN Raise
                      ELSE LET a == StripText(Or(Get(st, "abbreviation"), Get(tp, "abbreviation")))
                               abbr == IF Raised(a) THEN "" ELSE Upper(a[2])
                           IN  IF Raised(a) THEN Raise
                               ELSE Ok(CASE abbr = "TD" ->
                                              [counts EXCEPT ![tid].touchdowns = @ + 1]
                                         [] abbr = "FG" ->
                                              [counts EXCEPT ![tid].fieldGoals = @ + 1]
                                         [] abbr = "S" ->
                                              [counts EXCEPT ![tid].safeties = @ + 1]
                                         [] OTHER -> counts)

RECURSIVE count_scoring_plays(_, _, _)
count_scoring_plays(counts, plays, i) ==
    IF i > Len(plays) THEN Ok(counts)
    ELSE LET nxt == count_scoring_play(counts, plays[i])
         IN  IF Raised(nxt) THEN Raise ELSE count_scoring_plays(nxt[2], plays, i + 1)

\* A faulty aggregation that gives every scoring play of an unknown team an
\* entry of its own in teams_out, against which the team set of the document
\* is validated
aggregate_scoring_adds_teams(payload, teams) ==
    LET plays == payload[2]["scoringPlays"][2]
        known == {teams[i]["teamId"][2] : i \in DOMAIN teams}
        unknown == SelectSeq(plays, LAMBDA sp : IdText(Get(sp, "team")) \notin known)
        res == count_scoring_plays([t \in known |->
                                      [touchdowns |-> 0, fieldGoals |-> 0, safeties |-> 0]],
                                   plays, 1)
        scoring(n) == "scoring" :> ("touchdowns" :> JNum(n.touchdowns) @@
                                    "fieldGoals" :> JNum(n.fieldGoals) @@
                                    "safeties" :> JNum(n.safeties))
    IN  [i \in DOMAIN teams |->
            [teams[i] EXCEPT !["stats"] = scoring(res[2][teams[i]["teamId"][2]]) @@ @]]
        \o [k \in DOMAIN unknown |->
               [teams[1] EXCEPT !["teamId"] = JStr(IdText(Get(unknown[k], "team"))),
                                !["stats"] = scoring([touchdowns |-> 1, fieldGoals |-> 0,
                                                      safeties |-> 0]) @@ @]]

\* the scoring aggregation of lines 497-533: teams_out after it (an exception
\* inside is swallowed and attaches nothing)
aggregate_scoring(payload, teams) ==
    IF ~IsObj(payload) THEN teams
    ELSE LET scoring_plays == Or(Get(payload, "scoringPlays"),
                                 Or(Get(payload, "scoringplays"), JList(<< >>)))
         IN  IF ~(IsList(scoring_plays) /\ Truthy(scoring_plays)) THEN teams
             ELSE LET zero == [t \in {teams[i]["teamId"][2] : i \in DOMAIN teams} |->
                                  [touchdowns |-> 0, fieldGoals |-> 0, safeties |-> 0]]
                      res == count_scoring_plays(zero, scoring_plays[2], 1)
                      counts == res[2]
                  IN  IF Raised(res) THEN teams
                      ELSE [i \in DOMAIN teams |->
                              [teams[i] EXCEPT !["stats"] =
                                 ("scoring" :>
                                    ("touchdowns" :> JNum(counts[teams[i]["teamId"][2]].touchdowns) @@
                                     "fieldGoals" :> JNum(counts[teams[i]["teamId"][2]].fieldGoals) @@
                                     "safeties" :> JNum(counts[teams[i]["teamId"][2]].safeties)))
                                 @@ @]]

\* float texts of the model truncated by int()
FloatTrunc == "12.5" :> 12 @@ "0.0" :> 0 @@ "8.0" :> 8

\* int(raw_period) inside try/except (TypeError, ValueError): the int, or JNull
\* when it raises one of the two
period_int(raw_period) ==
    CASE raw_period[1] = "num" -> JNum(raw_period[2])
      [] raw_period[1] = "bool" -> JNum(IF raw_period[2] THEN 1 ELSE 0)
      [] raw_period[1] = "float" -> JNum(FloatTrunc[raw_period[2]])
      [] raw_period[1] = "str" /\ Strip(raw_period[2]) \in DOMAIN IntTexts ->
            JNum(IntTexts[Strip(raw_period[2])])
      [] OTHER -> JNull

\* the mapping of lines 556-562
state_status(state) ==
    CASE state = "pre" -> "STATUS_SCHEDULED"
      [] state = "in" -> "STATUS_IN_PROGRESS"
      [] state = "post" -> "STATUS_FINAL"
      [] state = "halftime" -> "STATUS_HALFTIME"
      [] OTHER -> "STATUS_UNKNOWN"

\* competitions[0] if competitions else {}: a list gives its first element, a
\* str its first character; a dict raises KeyError, a number TypeError
first_competition(competitions) ==
    IF ~Truthy(competitions) THEN EmptyObj
    ELSE CASE competitions[1] = "list" -> competitions[2][1]
           [] competitions[1] = "str" -> JStr("c")
           [] OTHER -> Raise

\* lines 567-569 without the test of line 568
positive_period_unchecked(p) == p

\* period_value = period_int only if period_int > 0 (lines 567-569)
positive_period(p) == IF p # JNull /\ p[2] > 0 THEN p ELSE JNull

extract_status_and_period(payload) ==
    LET unknown == [status |-> "STATUS_UNKNOWN", period |-> JNull]
        header == Or(Get(payload, "header"), EmptyObj)
        competitions == Or(Get(header, "competitions"), JList(<< >>))
        comp == first_competition(competitions)
        status_obj == Or(Get(comp, "status"), EmptyObj)
        status_type == Or(Get(status_obj, "type"), EmptyObj)
        raw_name == StripText(Get(status_type, "name"))
        state == StripText(Get(status_type, "state"))
        status_name == IF raw_name[2] # "" THEN Upper(raw_name[2])
                       ELSE state_status(Lower(state[2]))
        raw_period == IF status_name = "STATUS_SCHEDULED" THEN JNull
                      ELSE Get(status_obj, "period")
        p == IF raw_period = JNull THEN JNull ELSE period_int(raw_period)
    IN  IF ~IsObj(payload) \/ ~IsObj(header) \/ ~IsObj(comp)
           \/ ~IsObj(status_obj) \/ ~IsObj(status_type) \/ Raised(raw_name)
        THEN unknown
        ELSE IF raw_name[2] = "" /\ Raised(state) THEN unknown
        ELSE [status |-> status_name,
              period |-> positive_period(p)]

\* the document returned when the payload has no boxscore root (lines 413-418)
note_document(event_id, now) ==
    "eventId" :> JStr(event_id) @@
    "generatedAt" :> JNum(now) @@
    "teams" :> << >> @@
    "note" :> JStr("No boxscore in payload")

\* refine_boxscore(raw, event_id) at time now: Ok(the document), or Raise
refine_boxscore(payload, event_id, now) ==
    With(get_boxscore_root(payload), LAMBDA box :
         IF Raised(box) THEN Raise
         ELSE IF ~Truthy(box) THEN Ok(note_document(event_id, now))
         ELSE Then(refine_teams(box, extract_scores(payload)), LAMBDA teams :
              With(extract_status_and_period(payload), LAMBDA sp :
                   Ok("eventId" :> JStr(event_id) @@
                      "generatedAt" :> JNum(now) @@
                      "source" :> JStr("espn-nfl-boxscore") @@
                      "status" :> JStr(sp.status) @@
                      "period" :> sp.period @@
                      "teams" :> aggregate_scoring(payload, teams)))))

----------------------------------------------------------------------------
(* refined_live_stats.py: _merge_roster_zero_init *)

\* A Python dict whose order matters is a sequence of [key, val] entries:
\* assigning to a key it holds replaces the value in place, a new key is appended.
ODIndex(d, k) ==
    IF \E i \in DOMAIN d : d[i].key = k THEN CHOOSE i \in DOMAIN d : d[i].key = k ELSE 0

ODPut(d, k, val) ==
    IF ODIndex(d, k) # 0 THEN [d EXCEPT ![ODIndex(d, k)].val = val]
    ELSE Append(d, [key |-> k, val |-> val])

\* category_fields_union (lines 689-707): the default fields of each category
\* plus every field of every player's stats
category_fields_union(doc) ==
    LET players == UNION {{doc["teams"][i]["players"][j] : j \in DOMAIN doc["teams"][i]["players"]}
                            : i \in DOMAIN doc["teams"]}
        cats == DOMAIN DEFAULT_CATEGORIES \cup UNION {DOMAIN p.stats : p \in players}
    IN  [cat \in cats |->
            (IF cat \in DOMAIN DEFAULT_CATEGORIES THEN DOMAIN DEFAULT_CATEGORIES[cat] ELSE {})
            \cup UNION {DOMAIN p.stats[cat] : p \in {q \in players : cat \in DOMAIN q.stats}}]

\* the players list of a team as a dict keyed by identity key (lines 715-721)
RECURSIVE players_dict(_, _)
players_dict(players, i) ==
    IF i = 0 THEN << >>
    ELSE ODPut(players_dict(players, i - 1), PlayerKey(players[i]), players[i])

\* team_lookup (lines 710-734): the keys under which a team is found, each with
\* the index of the last team that claimed it
RECURSIVE team_lookup(_, _)
team_lookup(teams, i) ==
    IF i = 0 THEN EmptyMap
    ELSE LET abbr == teams[i]["abbreviation"]
             team_id == teams[i]["teamId"]
             byAbbr == IF IsStr(abbr) /\ abbr[2] # ""
                       THEN (abbr[2] :> i) @@ (Upper(abbr[2]) :> i) ELSE EmptyMap
             byId == IF team_id # JNull THEN (PyStr(team_id) :> i) ELSE EmptyMap
         IN  byId @@ byAbbr @@ team_lookup(teams, i - 1)

\* A faulty insertion that drops the athlete id, against which the idempotence
\* property is validated
roster_player_without_id(meta) ==
    [athleteId |-> JStr(""), fullName |-> meta.fullName, position |-> meta.position,
     jersey |-> meta.jersey, headshot |-> meta.headshot, stats |-> EmptyMap]

\* the player inserted for a roster entry that is not in the team (lines 750-757)
roster_player(meta) ==
    [athleteId |-> meta.athleteId, fullName |-> meta.fullName, position |-> meta.position,
     jersey |-> meta.jersey, headshot |-> meta.headshot, stats |-> EmptyMap]

\* a backfill that takes every metadata value the roster has
backfill_overwrites(p, meta) ==
    [p EXCEPT
        !.position = IF Truthy(meta.position) THEN meta.position ELSE @,
        !.jersey = IF Truthy(meta.jersey) THEN meta.jersey ELSE @,
        !.headshot = IF Truthy(meta.headshot) THEN meta.headshot ELSE @]

\* metadata backfill of a player already in the team (lines 760-765)
backfill(p, meta) ==
    [p EXCEPT
        !.position = IF ~Truthy(@) /\ Truthy(meta.position) THEN meta.position ELSE @,
        !.jersey = IF ~Truthy(@) /\ Truthy(meta.jersey) THEN meta.jersey ELSE @,
        !.headshot = IF ~Truthy(@) /\ Truthy(meta.headshot) THEN meta.headshot ELSE @]

\* defaults of one category (lines 768-774)
category_defaults(cat, union) ==
    [k \in (IF cat \in DOMAIN DEFAULT_CATEGORIES THEN DOMAIN DEFAULT_CATEGORIES[cat] ELSE {})
           \cup (IF cat \in DOMAIN union THEN union[cat] ELSE {}) |->
        IF cat \in DOMAIN DEFAULT_CATEGORIES /\ k \in DOMAIN DEFAULT_CATEGORIES[cat]
           /\ IsStr(DEFAULT_CATEGORIES[cat][k])
        THEN DEFAULT_CATEGORIES[cat][k] ELSE JNum(0)]

\* A faulty zero-init that leaves the stats as they are, against which the
\* completeness of the categories is validated
zero_init_skipped(stats, union) == stats

\* the zero-init of one player's stats (lines 767-779)
zero_init(stats, union) ==
    LET all_categories == DOMAIN DEFAULT_CATEGORIES \cup DOMAIN union
    IN  [cat \in all_categories \cup DOMAIN stats |->
            IF cat \in all_categories
            THEN (IF cat \in DOMAIN stats THEN stats[cat] ELSE EmptyMap) @@ category_defaults(cat, union)
            ELSE stats[cat]]

\* a merge of one roster entry that inserts nobody
merge_roster_player_existing_only(players, key, meta, union) ==
    LET pid == IF Truthy(meta.athleteId) THEN PyStr(meta.athleteId) ELSE key
        i == ODIndex(players, pid)
    IN  IF i = 0 THEN players
        ELSE ODPut(players, pid,
                   [backfill(players[i].val, meta) EXCEPT !.stats = zero_init(@, union)])

\* one roster entry merged into a team's players dict (lines 747-779)
merge_roster_player(players, key, meta, union) ==
    LET pid == IF Truthy(meta.athleteId) THEN PyStr(meta.athleteId) ELSE key
        i == ODIndex(players, pid)
        p == IF i = 0 THEN roster_player(meta) ELSE backfill(players[i].val, meta)
    IN  ODPut(players, pid, [p EXCEPT !.stats = zero_init(p.stats, union)])

RECURSIVE merge_roster_players(_, _, _, _)
merge_roster_players(players, roster_players, i, union) ==
    IF i > Len(roster_players) THEN players
    ELSE merge_roster_players(
            merge_roster_player(players, roster_players[i].key, roster_players[i].val, union),
            roster_players, i + 1, union)

\* for key, roster_players in roster_map.items() (lines 738-779): the players
\* dicts of the teams after the loop
RECURSIVE merge_rosters(_, _, _, _, _)
merge_rosters(dicts, lookup, rm, i, union) ==
    IF i > Len(rm) THEN dicts
    ELSE LET lookup_key == rm[i].key
             t == IF lookup_key \in DOMAIN lookup THEN lookup[lookup_key]
                  ELSE IF Upper(lookup_key) \in DOMAIN lookup THEN lookup[Upper(lookup_key)]
                  ELSE 0
         IN  IF t = 0 THEN merge_rosters(dicts, lookup, rm, i + 1, union)
             ELSE merge_rosters(
                    [dicts EXCEPT ![t] = merge_roster_players(@, rm[i].val, 1, union)],
                    lookup, rm, i + 1, union)

\* (p.get("fullName") or "").lower() on the names of the model
LowerName(s) ==
    CASE s = "Bob" -> "bob"
      [] s = "ADAM" -> "adam"
      [] s = "Carl" -> "carl"
      [] s = "Dan" -> "dan"
      [] OTHER -> s

\* Python's order of str on the texts the sort compares: the rank of a text
TextRank(s) ==
    CASE s = "" -> 0
      [] s = "10" -> 1
      [] s = "11" -> 2
      [] s = "12" -> 3
      [] s = "9" -> 4
      [] s = "adam" -> 5
      [] s = "bob" -> 6
      [] s = "carl" -> 7
      [] s = "dan" -> 8

\* the sort key of lines 787-790
SortKey(p) ==
    <<TextRank(LowerName(PyStr(Or(p.fullName, JStr(""))))),
      TextRank(PyStr(Or(p.athleteId, JStr(""))))>>

KeyLess(a, b) == a[1] < b[1] \/ (a[1] = b[1] /\ a[2] < b[2])

\* A faulty conversion that leaves the players in the order of the dict,
\* against which the order of the output is validated
sorted_players_in_dict_order(players, n) == players

\* sorted(): stable, an element goes after the elements that are not greater
RECURSIVE sorted_players(_, _)
sorted_players(players, n) ==
    IF n = 0 THEN << >>
    ELSE LET before == sorted_players(players, n - 1)
             x == players[n]
             k == Cardinality({j \in DOMAIN before : ~KeyLess(SortKey(x), SortKey(before[j]))})
         IN  SubSeq(before, 1, k) \o <<x>> \o SubSeq(before, k + 1, Len(before))

\* _merge_roster_zero_init(refined_players, roster_map)
merge_roster_zero_init(doc, rm) ==
    LET teams == doc["teams"]
        union == category_fields_union(doc)
        dicts == [i \in DOMAIN teams |-> players_dict(teams[i]["players"], Len(teams[i]["players"]))]
        lookup == team_lookup(teams, Len(teams))
        after == merge_rosters(dicts, lookup, rm, 1, union)
    IN  [doc EXCEPT !["teams"] =
            [i \in DOMAIN teams |->
                [teams[i] EXCEPT !["players"] =
                    sorted_players([j \in DOMAIN after[i] |-> after[i][j].val], Len(after[i]))]]]

----------------------------------------------------------------------------
(* refined_live_stats.py: _load_roster_players *)

\* the content of a file that json.load cannot parse, or that cannot be opened
Unreadable == <<"unreadable">>

\* fname.split("_", 1)[0] if fname.endswith("_roster.json") else None
RosterPrefix(fname) ==
    CASE fname = "KC_roster.json" -> JStr("KC")
      [] fname = "buf_roster.json" -> JStr("buf")
      [] OTHER -> JNull

\* os.path.splitext(fname)[0]
FileStem(fname) ==
    CASE fname = "KC_roster.json" -> "KC_roster"
      [] fname = "buf_roster.json" -> "buf_roster"
      [] fname = "1.json" -> "1"
      [] fname = "2.json" -> "2"
      [] OTHER -> fname

\* athletes grouped by position flattened (lines 649-651, inside try/except: an
\* exception keeps the items collected so far)
RECURSIVE roster_items(_, _)
roster_items(groups, i) ==
    IF i > Len(groups) THEN << >>
    ELSE LET items == IF IsObj(groups[i]) THEN Iter(GetD(groups[i], "items", JList(<< >>)))
                      ELSE Raise
         IN  IF Raised(items) THEN << >> ELSE items[2] \o roster_items(groups, i + 1)

\* the athletes of a roster payload (lines 643-655)
roster_athletes(data) ==
    LET teams == Or(Get(data, "athletes"), JList(<< >>))
    IN  IF IsList(teams) /\ Truthy(teams) /\ IsObj(teams[2][1]) /\ "items" \in DOMAIN teams[2][1][2]
        THEN roster_items(teams[2], 1)
        ELSE IF IsList(teams) THEN teams[2] ELSE << >>

\* one roster athlete (lines 658-676): its key and meta, or Raise
roster_entry(a) ==
    IF ~IsObj(a) THEN Raise
    ELSE LET aid == IdText(a)
             display == Or(Get(a, "displayName"), Or(Get(a, "fullName"), JStr("")))
             pos_field == Get(a, "position")
             position == IF IsObj(pos_field)
                         THEN Or(Get(pos_field, "abbreviation"),
                                 Or(Get(pos_field, "displayName"), Or(Get(pos_field, "name"), JStr(""))))
                         ELSE IF IsStr(pos_field) THEN pos_field ELSE JStr("")
             headshot == Get(a, "headshot")
         IN  Ok([key |-> IF aid # "" THEN aid ELSE "name:" \o PyStr(display),
                 val |-> [athleteId |-> JStr(aid),
                          fullName |-> display,
                          position |-> position,
                          jersey |-> Or(Get(a, "jersey"), JStr("")),
                          headshot |-> IF IsObj(headshot) THEN Get(headshot, "href")
                                       ELSE JStr("")]])

RECURSIVE roster_entries(_, _, _)
roster_entries(team_players, athletes, i) ==
    IF i > Len(athletes) THEN Ok(team_players)
    ELSE LET e == roster_entry(athletes[i])
         IN  IF Raised(e) THEN Raise
             ELSE roster_entries(ODPut(team_players, e[2].key, e[2].val), athletes, i + 1)

\* one roster file (lines 610-681): the map after it, or Raise
load_roster_file(result, file) ==
    IF file.data = Unreadable THEN Ok(result)
    ELSE IF ~IsObj(file.data) THEN Raise
    ELSE LET data == file.data
             team_meta == Or(Get(data, "team"), EmptyObj)
             inferred_team_id == IF IsObj(team_meta) THEN Strip(IdText(team_meta)) ELSE ""
             abbr_candidate == IF IsObj(team_meta)
                               THEN Or(Get(team_meta, "abbreviation"), Get(team_meta, "slug"))
                               ELSE JNull
             abbr1 == IF ~Truthy(RosterPrefix(file.fname)) /\ IsStr(abbr_candidate)
                      THEN abbr_candidate ELSE RosterPrefix(file.fname)
             abbr2 == IF ~Truthy(abbr1) THEN JStr(FileStem(file.fname)) ELSE abbr1
             inferred_abbr == Upper(Strip(abbr2[2]))
             team_players == roster_entries(<< >>, roster_athletes(data), 1)
         IN  IF inferred_abbr = "" /\ inferred_team_id = "" THEN Ok(result)
             ELSE IF Raised(team_players) THEN Raise
             ELSE LET r1 == IF inferred_abbr # "" THEN ODPut(result, inferred_abbr, team_players[2])
                            ELSE result
                  IN  IF inferred_team_id # "" THEN Ok(ODPut(r1, inferred_team_id, team_players[2]))
                      ELSE Ok(r1)

\* _load_roster_players() over the files of the roster directory in listing
\* order: Ok(the roster map), or Raise
RECURSIVE load_roster_players(_, _)
load_roster_players(roster_files, n) ==
    IF n = 0 THEN Ok(<< >>)
    ELSE LET before == load_roster_players(roster_files, n - 1)
         IN  IF Raised(before) THEN Raise ELSE load_roster_file(before[2], roster_files[n])

----------------------------------------------------------------------------
(* The payloads and roster files the model draws its inputs from *)

MaxAthletes == 2

\* all sequences over S of length at most n
RECURSIVE SeqsUpTo(_, _)
SeqsUpTo(S, n) ==
    IF n = 0 THEN {<< >>}
    ELSE LET shorter == SeqsUpTo(S, n - 1)
         IN  shorter \cup {Append(q, x) : q \in {r \in shorter : Len(r) = n - 1}, x \in S}

Texts(seq) == JList([i \in DOMAIN seq |-> JStr(seq[i])])

\* athlete records of a boxscore category
AthBob ==
    JObj("athlete" :> JObj("id" :> JStr("10") @@ "displayName" :> JStr("Bob") @@
                           "jersey" :> JStr("15") @@
                           "position" :> JObj("abbreviation" :> JStr("QB")) @@
                           "headshot" :> JObj("href" :> JStr("http://img/10"))) @@
         "stats" :> Texts(<<"3/5", "40", "1">>))
AthAdam ==
    JObj("athlete" :> JObj("displayName" :> JStr("ADAM")) @@
         "stats" :> Texts(<<"--", "1,234">>))
AthCarl ==
    JObj("athlete" :> JObj("id" :> JNum(9) @@ "fullName" :> JStr("Carl")) @@
         "stats" :> JObj("completions" :> JNum(4) @@ "attempts" :> JStr("7") @@
                         "yards" :> JStr("12.5")))
AthleteRecords == {AthBob, AthAdam, AthCarl, JStr("garbage"), JNull}

PassingKeys == Texts(<<"completions/passingAttempts", "passingYards", "passingTouchdowns">>)

PassingCat(athletes) ==
    JObj("name" :> JStr("passing") @@ "keys" :> PassingKeys @@
         "totals" :> Texts(<<"7/12", "52", "1">>) @@ "athletes" :> JList(athletes))

RushingCat ==
    JObj("name" :> JStr("rushing") @@
         "keys" :> Texts(<<"rushingAttempts", "rushingYards">>) @@
         "athletes" :> JList(<<JObj("athlete" :> JObj("id" :> JStr("10") @@ "displayName" :> JStr("Bob")) @@
                                    "stats" :> Texts(<<"2", "-3">>)),
                               JObj("athlete" :> JObj("id" :> JStr("11") @@ "displayName" :> JStr("Dan")) @@
                                    "stats" :> Texts(<<"5", "40">>))>>))

TeamKC == JObj("id" :> JStr("1") @@ "abbreviation" :> JStr("KC") @@ "displayName" :> JStr("Chiefs"))
TeamBUF == JObj("id" :> JNum(2) @@ "abbreviation" :> JStr("buf") @@ "displayName" :> JStr("Bills"))
TeamNoId == JObj("abbreviation" :> JStr("KC"))

\* the first element of box["players"]: team KC with a passing category
FirstBlocks ==
    {JObj("team" :> TeamKC @@ "statistics" :> JList(<<PassingCat(a), RushingCat>>))
        : a \in SeqsUpTo(AthleteRecords, MaxAthletes)}

\* what follows it in box["players"]
BlockBUF == JObj("team" :> TeamBUF @@ "statistics" :> JList(<<PassingCat(<<AthCarl>>)>>))
RestBlocks ==
    {<< >>,
     <<BlockBUF>>,
     <<JStr("garbage"), BlockBUF>>,
     <<JObj("team" :> TeamNoId @@ "statistics" :> JList(<< >>)), BlockBUF>>,
     <<JObj("team" :> EmptyObj), BlockBUF>>,
     <<JObj("team" :> TeamKC @@ "statistics" :> JList(<<RushingCat>>))>>}

\* box["teams"]
TeamsBoth ==
    JList(<<JObj("team" :> TeamKC @@ "homeAway" :> JStr("home") @@ "displayOrder" :> JNum(1)),
            JObj("team" :> TeamBUF @@ "homeAway" :> JStr("away") @@ "displayOrder" :> JNum(2))>>)
TeamsArrays == {JList(<< >>), TeamsBoth, JList(<<JObj("team" :> TeamNoId), JNull>>)}

\* Boxscore roots: every athlete list of the first block with two continuations,
\* and every continuation and teams array with two athlete lists
Boxes ==
    {JObj("players" :> JList(<<b>> \o r) @@ "teams" :> t)
        : b \in FirstBlocks, r \in {<< >>, <<BlockBUF>>}, t \in {JList(<< >>), TeamsBoth}}
    \cup
    {JObj("players" :>
             JList(<<JObj("team" :> TeamKC @@ "statistics" :> JList(<<PassingCat(a), RushingCat>>))>>
                   \o r) @@
          "teams" :> t)
        : a \in {<< >>, <<AthBob>>}, r \in RestBlocks, t \in TeamsArrays}

Header ==
    JObj("competitions" :> JList(<<
        JObj("status" :> JObj("type" :> JObj("state" :> JStr("in")) @@ "period" :> JNum(2)) @@
             "competitors" :> JList(<<
                JObj("team" :> JObj("id" :> JStr("1")) @@ "score" :> JStr("7") @@
                     "possession" :> JBool(TRUE)),
                JObj("team" :> JObj("id" :> JStr("2")) @@ "score" :> JStr("3"))>>))>>))

ScoringPlays ==
    JList(<<JObj("team" :> JObj("id" :> JStr("1")) @@ "type" :> JObj("abbreviation" :> JStr("TD"))),
            JObj("team" :> JObj("id" :> JStr("2")) @@ "scoringType" :> JObj("abbreviation" :> JStr("fg")))>>)

\* the three places of the boxscore root
Shapes == {"top", "boxscore", "summary"}

Payload(shape, box) ==
    CASE shape = "top" -> JObj(("header" :> Header) @@ box[2])
      [] shape = "boxscore" ->
            JObj("boxscore" :> box @@ "header" :> Header @@ "scoringPlays" :> ScoringPlays)
      [] shape = "summary" -> JObj("summary" :> JObj("boxscore" :> box))

\* payloads with a boxscore root
RootedPayloads == {Payload(sh, box) : sh \in Shapes, box \in Boxes}

\* payloads without one: nothing to find, or a boxscore that is no object
RootlessPayloads ==
    {EmptyObj,
     JObj("foo" :> JNum(1)),
     JObj("players" :> JList(<< >>)),
     JObj("boxscore" :> JNull),
     JObj("boxscore" :> EmptyObj),
     JObj("boxscore" :> JNum(5)),
     JObj("boxscore" :> JStr("N/A")),
     JObj("boxscore" :> JList(<<JNum(1)>>)),
     JObj("summary" :> JStr("none")),
     JObj("summary" :> JObj("boxscore" :> JNull)),
     JObj("summary" :> JObj("boxscore" :> JNum(5))),
     JNum(5),
     JStr("garbage"),
     JList(<<JNum(1)>>)}

RawInputs == RootedPayloads \cup RootlessPayloads

\* roster files
RosterKC ==
    [fname |-> "KC_roster.json",
     data |-> JObj("team" :> JObj("id" :> JStr("1") @@ "abbreviation" :> JStr("KC")) @@
                   "athletes" :> JList(<<
                      JObj("position" :> JStr("offense") @@
                           "items" :> JList(<<
                              JObj("id" :> JStr("10") @@ "displayName" :> JStr("Bob") @@
                                   "jersey" :> JStr("15") @@
                                   "position" :> JObj("abbreviation" :> JStr("QB"))),
                              JObj("id" :> JStr("12") @@ "fullName" :> JStr("Bob") @@
                                   "position" :> JStr("WR") @@
                                   "headshot" :> JObj("href" :> JStr("http://img/12"))),
                              JObj("displayName" :> JStr("ADAM") @@ "jersey" :> JStr("88"))>>))>>))]
RosterBUF ==
    [fname |-> "buf_roster.json",
     data |-> JObj("athletes" :> JList(<<
                      JObj("id" :> JNum(9) @@ "displayName" :> JStr("Carl") @@ "jersey" :> JStr("4")),
                      JObj("id" :> JStr("11") @@ "displayName" :> JStr("Dan"))>>))]
RosterById ==
    [fname |-> "2.json",
     data |-> JObj("team" :> JObj("id" :> JNum(2)) @@
                   "athletes" :> JList(<<JObj("displayName" :> JStr("Dan"))>>))]
RosterBroken == [fname |-> "1.json", data |-> Unreadable]

\* the listings of the roster directory
RosterStores ==
    {<< >>, <<RosterKC>>, <<RosterKC, RosterBUF>>, <<RosterBUF, RosterById, RosterKC>>,
     <<RosterBroken, RosterById>>}

RosterMaps == {load_roster_players(roster_files, Len(roster_files))[2] : roster_files \in RosterStores}

EventId == "401"

----------------------------------------------------------------------------
(* The two stores and the poller: helpers.py write_json_to_dir, read_json;    *)
(* refined_live_stats.py write_json, list_source_games,                       *)
(* cleanup_orphan_refined_games, read_raw_from_source, main_loop.             *)
(*                                                                            *)
(* rawStore is nfl_raw_live_stats/ (written by the raw poller, the            *)
(* environment of this program): per game no file, a file that cannot be read *)
(* as JSON, or a payload. files is the output directory: per file name no     *)
(* file or a content, the document being dumped and how much of it is there.  *)

loop_vars == <<rawStore, rosterStore, files, pc, ids, idx, tick, max_ticks, cur, gone, envSteps,
               lastw, cleaned, cyc>>
vars == <<phase, raw, roster_map, refined, merged, merged2, call, ret, loop_vars, po>>

Games == {"401", "402"}

\* the pieces json.dump writes a document in
Chunks == 2
\* the ticks counted before the counter saturates
MaxTicks == 2
\* the changes the raw poller makes to nfl_raw_live_stats/ in a behaviour
MaxEnvSteps == 1

Absent == <<"absent">>
Content(doc, written) == <<"content", doc, written>>
Complete(c) == c # Absent /\ c[3] = Chunks

\* the directories (helpers.py 8-10) and the directory write_json writes to
NFL_LIVE_DIR == "nfl_live_stats"
NFL_REFINED_DIR == "nfl_refined_live_stats"
NFL_ROSTERS_DIR == "nfl_rosters"

\* A faulty output directory, the raw directory itself, against which the
\* frame of a cycle is validated
OUTPUT_DIR_is_source == NFL_LIVE_DIR

\* OUTPUT_DIR as imported (refined_live_stats.py 10)
OUTPUT_DIR == NFL_REFINED_DIR

\* os.path.join(out_dir, filename) with filename = f"{gid}.json" (helpers.py 128, main_loop 821)
path_of(gid) == gid \o ".json"

\* A faulty temporary name, the final path itself, against which the atomic
\* write is validated
tmp_name_in_place(path) == path

\* tmp = path + ".tmp" (helpers.py 129)
tmp_name(path) == path \o ".tmp"

JsonNames == {path_of(g) : g \in Games}
FileNames == JsonNames \cup {n \o ".tmp" : n \in JsonNames}

\* os.path.splitext(fname)[0] for a name that ends with .json
splitext(fname) == CHOOSE g \in Games : path_of(g) = fname

\* the orderings in which os.listdir may return a set of names
Orderings(S) ==
    {q \in [1..Cardinality(S) -> S] : \A i, j \in 1..Cardinality(S) : q[i] = q[j] => i = j}

\* the payloads the raw poller leaves in a raw file
RawGood ==
    JObj("boxscore" :>
            JObj("players" :> JList(<<JObj("team" :> TeamKC @@
                                          "statistics" :> JList(<<PassingCat(<<AthBob>>)>>))>>) @@
                 "teams" :> JList(<< >>)) @@
         "header" :> Header)
RawEmpty == EmptyObj
RawBad == JObj("boxscore" :> JNum(5))
RawStates == {Absent, Unreadable, RawGood, RawEmpty, RawBad}

\* the roster directory of the poller's run
RosterFiles == <<RosterKC>>

\* read_json(path): None when the file is missing, unreadable or no JSON
read_json(stored) == IF stored = Absent \/ stored = Unreadable THEN JNull ELSE stored

\* list_source_games(): the ids of the raw files, in one of the orders of os.listdir
list_source_games(store) == Orderings({g \in Games : store[g] # Absent})

\* A faulty orphan test that takes every file for an orphan, against which the
\* reconciliation is validated
is_orphan_always(gid, source_ids) == TRUE

\* A faulty orphan test that takes no file for an orphan, against which the
\* eventual deletion is validated
is_orphan_never(gid, source_ids) == FALSE

\* gid not in source_ids (line 70)
is_orphan(gid, source_ids) == gid \notin source_ids

\* one file of the loop of cleanup_orphan_refined_games (lines 68-77); failing
\* holds the names on which os.remove raises OSError
remove_orphan(acc, fname, source_ids, failing) ==
    IF is_orphan(splitext(fname), source_ids)
    THEN IF fname \in failing THEN acc
         ELSE [files |-> [acc.files EXCEPT ![fname] = Absent], deleted |-> acc.deleted + 1]
    ELSE acc

RECURSIVE cleanup_files(_, _, _, _, _)
cleanup_files(acc, listing, i, source_ids, failing) ==
    IF i > Len(listing) THEN acc
    ELSE cleanup_files(remove_orphan(acc, listing[i], source_ids, failing),
                       listing, i + 1, source_ids, failing)

\* cleanup_orphan_refined_games(): the output directory after it and the count
\* it returns; listing is os.listdir(OUTPUT_DIR) filtered to *.json
cleanup_orphan_refined_games(fs, listing, source_ids, failing) ==
    cleanup_files([files |-> fs, deleted |-> 0], listing, 1, source_ids, failing)

\* A faulty failed replace that has already unlinked the destination, against
\* which the safety of the committed document is validated
replace_failed_unlinks(fs, tmp, path) == [fs EXCEPT ![path] = Absent]

\* what an os.replace that raises leaves: nothing changes
replace_failed(fs, tmp, path) == fs

\* os.replace(tmp, path) (helpers.py 132)
replace(fs, tmp, path) == [fs EXCEPT ![path] = fs[tmp], ![tmp] = Absent]

\* the raw directory and the roster directory after os.replace(tmp, path) has
\* put a document at path = out_dir/{gid}.json: as before unless out_dir is that
\* directory
raw_after_replace(store, out_dir, gid, doc) ==
    IF out_dir = NFL_LIVE_DIR THEN [store EXCEPT ![gid] = doc] ELSE store
rosters_after_replace(store, out_dir, gid, doc) ==
    IF out_dir = NFL_ROSTERS_DIR THEN Append(store, [fname |-> path_of(gid), data |-> doc])
    ELSE store

\* the body of the for loop of main_loop after the read (lines 816-819) over
\* the files of the roster directory: Ok(players_zeroed), or Raise
refine_game(data, gid, now, roster_files) ==
    Then(refine_boxscore(data, gid, now), LAMBDA players_only :
    Then(load_roster_players(roster_files, Len(roster_files)), LAMBDA rm :
         Ok(merge_roster_zero_init(players_only, rm))))

\* the clock readings the documents tell apart
MaxNow == 1

\* now_iso() during the cycle after t ticks: a reading of the clock, the same
\* from MaxNow on
now_iso(t) == IF t < MaxNow THEN t ELSE MaxNow

\* A faulty except clause that leaves the loop, against which the survival of
\* the loop is validated
after_exception_exits == "done"

\* where main_loop goes on after its except clause (lines 822-824)
after_exception == "tick"

\* refine_game tabulated over the roster directory, the games, the payloads of
\* the raw store and the ticks, so that a cycle looks its document up
refined_games ==
    [r \in {RosterFiles} |->
        [g \in Games |->
            [p \in RawStates \ {Absent, Unreadable} |->
                [t \in 0..MaxNow |-> refine_game(p, g, t, r)]]]]

\* history values: no write_json has returned, no cleanup has run, no document
NoWrite == <<"none">>
NoCleanup == <<"none">>
NoDoc == <<"none">>

\* the poller at rest, for the behaviours that only apply the pure functions
LoopIdle ==
    /\ rawStore = [g \in Games |-> Absent]
    /\ rosterStore = << >>
    /\ files = [n \in FileNames |-> Absent]
    /\ pc = "idle"
    /\ ids = << >>
    /\ idx = 1
    /\ tick = 0
    /\ max_ticks = JNull
    /\ cur = NoDoc
    /\ gone = [g \in Games |-> FALSE]
    /\ envSteps = 0
    /\ lastw = NoWrite
    /\ cleaned = NoCleanup
    /\ cyc = [g \in Games |-> "pending"]

\* no helper function is called on its own
NoCall == <<"none">>

\* no run of process_once
NoRun == <<"none">>
RosterIdle == po = NoRun

CallIdle ==
    /\ call = NoCall
    /\ ret = NoCall

\* the harness at rest, for the behaviours of the poller
PureIdle ==
    /\ phase = "idle"
    /\ CallIdle
    /\ RosterIdle
    /\ raw = JNull
    /\ roster_map = << >>
    /\ refined = JNull
    /\ merged = JNull
    /\ merged2 = JNull

\* main_loop before its first tick (lines 796-800): any content of the raw
\* directory, an empty output directory
Init ==
    /\ PureIdle
    /\ rawStore \in [Games -> RawStates]
    /\ rosterStore = RosterFiles
    /\ files = [n \in FileNames |-> Absent]
    /\ pc = "list"
    /\ ids = << >>
    /\ idx = 1
    /\ tick = 0
    /\ max_ticks \in {JNull} \cup {JNum(n) : n \in 1..MaxTicks}
    /\ cur = NoDoc
    /\ gone = [g \in Games |-> FALSE]
    /\ envSteps = 0
    /\ lastw = NoWrite
    /\ cleaned = NoCleanup
    /\ cyc = [g \in Games |-> "pending"]

\* ids = list_source_games() (line 804)
StartCycle ==
    /\ pc = "list"
    /\ ids' \in list_source_games(rawStore)
    /\ pc' = "cleanup"
    /\ idx' = 1
    /\ lastw' = NoWrite
    /\ cleaned' = NoCleanup
    /\ cyc' = [g \in Games |-> "pending"]
    /\ UNCHANGED <<rawStore, rosterStore, files, tick, max_ticks, cur, gone, envSteps, pure_vars>>

\* removed = cleanup_orphan_refined_games() (line 808), which lists the raw
\* directory again; os.remove fails on any of the files
Cleanup ==
    /\ pc = "cleanup"
    /\ \E listing \in Orderings({n \in JsonNames : files[n] # Absent}),
          failing \in SUBSET {n \in JsonNames : files[n] # Absent /\ rawStore[splitext(n)] = Absent} :
          /\ files' = cleanup_orphan_refined_games(
                          files, listing, {g \in Games : rawStore[g] # Absent}, failing).files
          /\ cleaned' = <<"cleaned", {g \in Games : rawStore[g] # Absent}, files, failing,
                          cleanup_orphan_refined_games(
                              files, listing, {g \in Games : rawStore[g] # Absent}, failing).deleted>>
    /\ pc' = "game"
    /\ UNCHANGED <<rawStore, rosterStore, ids, idx, tick, max_ticks, cur, gone, envSteps, lastw, cyc, pure_vars>>

\* what the cycle did with the games after position i when it is aborted there
AbortedAt(i) ==
    [g \in Games |->
        IF g = ids[i] THEN "raised"
        ELSE IF \E j \in DOMAIN ids : j > i /\ ids[j] = g
             THEN (IF read_json(rawStore[g]) = JNull THEN "unreadable" ELSE "lost")
             ELSE cyc[g]]

\* one game of "for gid in ids" up to the call of write_json (lines 811-821):
\* the raw file is read; nothing readable or an empty payload skips the game; an
\* exception of the refinement leaves the loop for the except clause of line 822
RefineGame ==
    /\ pc = "game"
    /\ idx <= Len(ids)
    /\ cur' = IF Truthy(read_json(rawStore[ids[idx]]))
              THEN refined_games[rosterStore][ids[idx]][read_json(rawStore[ids[idx]])][now_iso(tick)]
              ELSE NoDoc
    /\ IF ~Truthy(read_json(rawStore[ids[idx]]))
       THEN /\ pc' = "game"
            /\ idx' = idx + 1
            /\ cyc' = [cyc EXCEPT ![ids[idx]] =
                          IF read_json(rawStore[ids[idx]]) = JNull THEN "unreadable" ELSE "skipped"]
            /\ lastw' = NoWrite
       ELSE IF Raised(cur')
       THEN /\ pc' = after_exception
            /\ idx' = idx
            /\ cyc' = AbortedAt(idx)
            /\ lastw' = NoWrite
       ELSE /\ pc' = "open"
            /\ idx' = idx
            /\ cyc' = cyc
            /\ lastw' = <<"writing", ids[idx], FALSE, files>>
    /\ cleaned' = NoCleanup
    /\ UNCHANGED <<rawStore, rosterStore, files, ids, tick, max_ticks, gone, envSteps, pure_vars>>

\* write_json returns (lines 42-44): the loop goes on with the next game
WriteReturns(ok) ==
    /\ pc' = "game"
    /\ idx' = idx + 1
    /\ lastw' = <<"returned", ids[idx], ok, lastw[4]>>
    /\ cyc' = [cyc EXCEPT ![ids[idx]] = IF ok THEN "written" ELSE "write_failed"]
    /\ cur' = NoDoc

\* open(tmp, "w") (helpers.py 130): the temporary file is created or truncated,
\* or open raises and write_json catches it
WriteOpen ==
    /\ pc = "open"
    /\ \/ /\ files' = [files EXCEPT ![tmp_name(path_of(ids[idx]))] = Content(cur[2], 0)]
          /\ pc' = "dump"
          /\ UNCHANGED <<idx, lastw, cyc, cur>>
       \/ /\ files' = files
          /\ WriteReturns(FALSE)
    /\ UNCHANGED <<rawStore, rosterStore, ids, tick, max_ticks, gone, envSteps, cleaned, pure_vars>>

\* json.dump(data, f) (helpers.py 131) writes the next piece of the document,
\* or raises and write_json catches it
WriteDump ==
    /\ pc = "dump"
    /\ \/ /\ files' = [files EXCEPT ![tmp_name(path_of(ids[idx]))] = Content(@[2], @[3] + 1)]
          /\ pc' = IF files'[tmp_name(path_of(ids[idx]))][3] = Chunks THEN "replace" ELSE "dump"
          /\ UNCHANGED <<idx, lastw, cyc, cur>>
       \/ /\ files' = files
          /\ WriteReturns(FALSE)
    /\ UNCHANGED <<rawStore, rosterStore, ids, tick, max_ticks, gone, envSteps, cleaned, pure_vars>>

\* os.replace(tmp, path) (helpers.py 132), or it raises and write_json catches it
WriteReplace ==
    /\ pc = "replace"
    /\ \/ /\ files' = replace(files, tmp_name(path_of(ids[idx])), path_of(ids[idx]))
          /\ rawStore' = raw_after_replace(rawStore, OUTPUT_DIR, ids[idx], cur[2])
          /\ rosterStore' = rosters_after_replace(rosterStore, OUTPUT_DIR, ids[idx], cur[2])
          /\ WriteReturns(TRUE)
       \/ /\ files' = replace_failed(files, tmp_name(path_of(ids[idx])), path_of(ids[idx]))
          /\ UNCHANGED <<rawStore, rosterStore>>
          /\ WriteReturns(FALSE)
    /\ UNCHANGED <<ids, tick, max_ticks, gone, envSteps, cleaned, pure_vars>>

\* os.listdir raises an OSError that is no FileNotFoundError in
\* list_source_games (line 51) or in cleanup_orphan_refined_games (lines 62, 65):
\* the exception reaches the except clause of line 822 before any game is refined
CycleRaises ==
    /\ pc \in {"list", "cleanup"}
    /\ pc' = after_exception
    /\ cyc' = [g \in Games |-> "aborted"]
    /\ UNCHANGED <<rawStore, rosterStore, files, ids, idx, tick, max_ticks, cur, gone, envSteps, lastw,
                   cleaned, pure_vars>>

\* the cycle is over: the for loop is exhausted or an exception was caught
CycleOver == pc = "tick" \/ (pc = "game" /\ idx > Len(ids))

\* tick += 1, the max_ticks test and the sleep (lines 824-829); the counter
\* saturates at MaxTicks, which no max_ticks of the model exceeds. The locals
\* of the finished cycle are dead and are cleared
Tick ==
    /\ CycleOver
    /\ tick' = IF tick < MaxTicks THEN tick + 1 ELSE tick
    /\ pc' = IF max_ticks # JNull /\ tick + 1 >= max_ticks[2] THEN "done" ELSE "list"
    /\ ids' = << >>
    /\ idx' = 1
    /\ cur' = NoDoc
    /\ cyc' = [g \in Games |-> "pending"]
    /\ lastw' = NoWrite
    /\ cleaned' = NoCleanup
    /\ UNCHANGED <<rawStore, rosterStore, files, max_ticks, gone, envSteps, pure_vars>>

\* the raw poller writes the raw file of a game
EnvPut(g) ==
    /\ envSteps < MaxEnvSteps
    /\ ~gone[g]
    /\ \E p \in RawStates \ {Absent, rawStore[g]} : rawStore' = [rawStore EXCEPT ![g] = p]
    /\ envSteps' = envSteps + 1
    /\ UNCHANGED <<rosterStore, files, pc, ids, idx, tick, max_ticks, cur, gone, lastw, cleaned, cyc,
                   pure_vars>>

\* the raw files of some games are removed together, for a while or for good
EnvRemove(G) ==
    /\ envSteps < MaxEnvSteps
    /\ \A g \in G : rawStore[g] # Absent
    /\ rawStore' = [g \in Games |-> IF g \in G THEN Absent ELSE rawStore[g]]
    /\ \E forever \in BOOLEAN : gone' = [g \in Games |-> IF g \in G THEN forever ELSE gone[g]]
    /\ envSteps' = envSteps + 1
    /\ UNCHANGED <<rosterStore, files, pc, ids, idx, tick, max_ticks, cur, lastw, cleaned, cyc,
                   pure_vars>>

\* the steps of main_loop
Program == StartCycle \/ Cleanup \/ RefineGame \/ WriteOpen \/ WriteDump \/ WriteReplace \/ Tick

Next ==
    \/ StartCycle
    \/ Cleanup
    \/ RefineGame
    \/ WriteOpen
    \/ WriteDump
    \/ WriteReplace
    \/ Tick
    \/ CycleRaises
    \/ \E g \in Games : EnvPut(g)
    \/ \E G \in SUBSET Games \ {{}} : EnvRemove(G)

Spec == Init /\ [][Next]_vars

\* the poller started without max_ticks over the raw file of a game that can be
\* refined, alone or next to the raw file of a game that yields no document
FairInit ==
    /\ Init
    /\ max_ticks = JNull
    /\ rawStore["401"] = RawGood
    /\ rawStore["402"] \in {Absent, Unreadable, RawEmpty, RawBad}

\* the poller started with or without max_ticks over raw files that are there
\* to stay
LoopInit ==
    /\ Init
    /\ rawStore["401"] \in {RawGood, RawBad}
    /\ rawStore["402"] \in {Absent, Unreadable, RawGood, RawBad}

\* the poller alone
LoopNext ==
    \/ StartCycle
    \/ Cleanup
    \/ RefineGame
    \/ WriteOpen
    \/ WriteDump
    \/ WriteReplace
    \/ Tick
    \/ CycleRaises

\* main_loop keeps taking steps
LoopSpec == LoopInit /\ [][LoopNext]_vars /\ WF_vars(LoopNext)

\* the cleanup deletes the canonical file of game g
Deletes(g) == Cleanup /\ files[path_of(g)] # Absent /\ files'[path_of(g)] = Absent

\* main_loop keeps taking steps, and a deletion that can be attempted again
\* and again does not fail for ever
\* the poller while raw files only disappear
FairNext ==
    \/ StartCycle
    \/ Cleanup
    \/ RefineGame
    \/ WriteOpen
    \/ WriteDump
    \/ WriteReplace
    \/ Tick
    \/ \E G \in SUBSET Games \ {{}} : EnvRemove(G)

FairSpec ==
    /\ FairInit
    /\ [][FairNext]_vars
    /\ WF_vars(Program)
    /\ \A g \in Games : SF_vars(Deletes(g))

----------------------------------------------------------------------------
(* The pure functions applied to the inputs: refine_boxscore, then            *)
(* _merge_roster_zero_init, then _merge_roster_zero_init on its own output    *)

RefineInit ==
    /\ phase = "input"
    /\ raw \in RawInputs
    /\ roster_map \in RosterMaps
    /\ refined = JNull
    /\ merged = JNull
    /\ merged2 = JNull
    /\ CallIdle
    /\ LoopIdle
    /\ RosterIdle

Refine ==
    /\ phase = "input"
    /\ refined' = refine_boxscore(raw, EventId, 0)
    /\ phase' = IF Raised(refined') THEN "raised" ELSE "refined"
    /\ UNCHANGED <<raw, roster_map, merged, merged2, call, ret, loop_vars, po>>

Merge ==
    /\ phase = "refined"
    /\ merged' = merge_roster_zero_init(refined[2], roster_map)
    /\ phase' = "merged"
    /\ UNCHANGED <<raw, roster_map, refined, merged2, call, ret, loop_vars, po>>

MergeAgain ==
    /\ phase = "merged"
    /\ merged2' = merge_roster_zero_init(merged, roster_map)
    /\ phase' = "merged2"
    /\ UNCHANGED <<raw, roster_map, refined, merged, call, ret, loop_vars, po>>

RefineNext == Refine \/ Merge \/ MergeAgain

RefineSpec == RefineInit /\ [][RefineNext]_vars

----------------------------------------------------------------------------
(* Properties of refine_boxscore and _merge_roster_zero_init (RefineSpec) *)

\* the players of every team of a document
TeamPlayers(doc) ==
    {<<i, j>> \in (DOMAIN doc["teams"]) \X (1..MaxAthletes + 8) :
        j \in DOMAIN doc["teams"][i]["players"]}

\* C1: the roster merge is idempotent: _merge_roster_zero_init applied to its
\* own output with the same roster map returns a document equal to that output
\* in every field, the players of each team, their stats and their order included
C1_MergeIdempotent == phase = "merged2" => merged2 = merged

\* a second merge was applied to a document in which the first merge had
\* inserted roster players
C1_Witness ==
    /\ phase = "merged2"
    /\ \E i \in DOMAIN merged["teams"] :
          Len(merged["teams"][i]["players"]) > Len(refined[2]["teams"][i]["players"])

\* a player has the ten default categories, each with its default fields
HasAllDefaults(p) ==
    \A cat \in DOMAIN DEFAULT_CATEGORIES :
        /\ cat \in DOMAIN p.stats
        /\ DOMAIN DEFAULT_CATEGORIES[cat] \subseteq DOMAIN p.stats[cat]

\* C2: after refine_boxscore followed by _merge_roster_zero_init every player of
\* every team, extracted from the boxscore or inserted from the roster, has all
\* ten default categories in its stats, each with every default field
C2_AllCategoriesPresent ==
    phase = "merged" =>
        \A ij \in TeamPlayers(merged) : HasAllDefaults(merged["teams"][ij[1]]["players"][ij[2]])

\* a merged team holds a boxscore player who is on no roster (Dan, 11) next to
\* a player who came from the roster only (Bob, 12)
C2_Witness ==
    /\ phase = "merged"
    /\ \E i \in DOMAIN merged["teams"] :
          /\ \E j \in DOMAIN merged["teams"][i]["players"] :
                merged["teams"][i]["players"][j].athleteId = JStr("11")
          /\ \E j \in DOMAIN merged["teams"][i]["players"] :
                merged["teams"][i]["players"][j].athleteId = JStr("12")
          /\ \A j \in DOMAIN refined[2]["teams"][i]["players"] :
                refined[2]["teams"][i]["players"][j].athleteId # JStr("12")

\* a usable boxscore object: a non-empty dict
UsableBox(x) == IsObj(x) /\ DOMAIN x[2] # {}

\* the raw input has a recognizable boxscore root: top-level players and teams,
\* a usable boxscore object, or one under summary
HasRoot(x) ==
    /\ IsObj(x)
    /\ \/ {"players", "teams"} \subseteq DOMAIN x[2]
       \/ "boxscore" \in DOMAIN x[2] /\ UsableBox(x[2]["boxscore"])
       \/ /\ "summary" \in DOMAIN x[2]
          /\ IsObj(x[2]["summary"])
          /\ "boxscore" \in DOMAIN x[2]["summary"][2]
          /\ UsableBox(x[2]["summary"][2]["boxscore"])

\* C8: for any raw input that is a JSON object lacking a recognizable boxscore
\* root refine_boxscore does not raise and returns a document with the given
\* eventId, teams equal to the empty list and a non-empty note
C8_NoRootGivesNote ==
    (phase # "input" /\ IsObj(raw) /\ ~HasRoot(raw)) =>
        /\ ~Raised(refined)
        /\ refined[2]["eventId"] = JStr(EventId)
        /\ refined[2]["teams"] = << >>
        /\ "note" \in DOMAIN refined[2]
        /\ Truthy(refined[2]["note"])

\* the elements of a JSON list, none for anything else
Elems(x) == IF IsList(x) THEN {x[2][i] : i \in DOMAIN x[2]} ELSE {}

\* the team blocks of box["players"] that can be parsed: a dict with a team that has an id
WellFormedBlocks(box) ==
    {b \in Elems(Get(box, "players")) :
        IsObj(b) /\ IsObj(Get(b, "team")) /\ Get(Get(b, "team"), "id") # JNull}

\* the athlete records of a team block that can be parsed
WellFormedAthletes(b) ==
    UNION {{a \in Elems(Get(c, "athletes")) : IsObj(a) /\ ~Raised(extract_athlete_meta(a))}
            : c \in {c \in Elems(Get(b, "statistics")) : IsObj(c)}}

\* a team record or an athlete record of the boxscore that is no dict
HasMalformedRecord(box) ==
    \/ \E b \in Elems(Get(box, "players")) : ~IsObj(b)
    \/ \E b \in WellFormedBlocks(box) :
          \E c \in {c \in Elems(Get(b, "statistics")) : IsObj(c)} :
             \E a \in Elems(Get(c, "athletes")) : ~IsObj(a)

\* the document holds the team of a block and the athletes of the block in it
BlockExtracted(doc, b) ==
    \E i \in DOMAIN doc["teams"] :
        /\ doc["teams"][i]["teamId"] = JStr(PyStr(Get(Get(b, "team"), "id")))
        /\ \A a \in WellFormedAthletes(b) :
              \E j \in DOMAIN doc["teams"][i]["players"] :
                 /\ PlayerKey(doc["teams"][i]["players"][j]) = PlayerKey(extract_athlete_meta(a)[2])
                 /\ DOMAIN doc["teams"][i]["players"][j].stats = DOMAIN DEFAULT_CATEGORIES

\* C9: in refine_boxscore one malformed team record or athlete record is skipped
\* without aborting the extraction: every other well-formed team and athlete of
\* the payload still appears in the returned document with its stats
C9_MalformedRecordSkipped ==
    (phase # "input" /\ HasRoot(raw) /\ IsObj(get_boxscore_root(raw))
        /\ HasMalformedRecord(get_boxscore_root(raw))) =>
        /\ ~Raised(refined)
        /\ \A b \in WellFormedBlocks(get_boxscore_root(raw)) : BlockExtracted(refined[2], b)

----------------------------------------------------------------------------
(* Properties of the writes, the reconciliation and the cycle *)

\* C3: at every point of any sequence of writes, failed ones included, the
\* file <eventId>.json of every game is missing or holds a complete document;
\* content that is not complete exists only under a temporary name; and the
\* content of <eventId>.json changes only by the rename of a completely
\* written temporary file of that game, or by its deletion in the cleanup
C3_AtomicRename ==
    /\ [](\A n \in FileNames : files[n] # Absent /\ ~Complete(files[n]) => n \notin JsonNames)
    /\ [][\A g \in Games :
            files'[path_of(g)] # files[path_of(g)] =>
                \/ /\ pc = "replace"
                   /\ ids[idx] = g
                   /\ Complete(files[tmp_name(path_of(g))])
                   /\ files'[path_of(g)] = files[tmp_name(path_of(g))]
                \/ /\ pc = "cleanup"
                   /\ files'[path_of(g)] = Absent]_vars

\* a write is in progress over a committed document: the temporary file holds
\* a part of another document than the one a reader sees
C3_Witness ==
    \E g \in Games :
        /\ Complete(files[path_of(g)])
        /\ files[tmp_name(path_of(g))] # Absent
        /\ ~Complete(files[tmp_name(path_of(g))])
        /\ files[tmp_name(path_of(g))][2] # files[path_of(g)][2]

\* write_json has just returned from a write that failed
WriteFailed == lastw[1] = "returned" /\ ~lastw[3]

\* C4: after write_json returns from a write that failed, no <eventId>.json.tmp
\* of that game is left in the output directory
C4_TmpCleanedUp ==
    WriteFailed => files[tmp_name(path_of(lastw[2]))] = Absent

\* a write of a game failed after its temporary file was opened
C4_Witness ==
    /\ WriteFailed
    /\ files[tmp_name(path_of(lastw[2]))] # Absent

\* C5: after write_json returns from a write that failed, the <eventId>.json of
\* the game has the content it had before the call, and every other file of
\* the output store is unchanged
C5_FailedWriteLeavesStore ==
    WriteFailed => \A n \in FileNames : files[n] = lastw[4][n]

\* a write failed over a committed document of the game
C5_Witness ==
    /\ WriteFailed
    /\ lastw[4][path_of(lastw[2])] # Absent

\* after write_json returns from a write that failed, every file of the output
\* store but the temporary file of the game is unchanged
FailedWriteKeepsOtherFiles ==
    WriteFailed =>
        \A n \in FileNames \ {tmp_name(path_of(lastw[2]))} : files[n] = lastw[4][n]

\* the canonical files of a directory
Canonical(fs) == {n \in JsonNames : fs[n] # Absent}

\* C6: after cleanup_orphan_refined_games returns, the canonical files that
\* remain are exactly those of before whose id is in the source set and the
\* orphans whose own deletion failed, each with its content; the count it
\* returns is the number of files it deleted
C6_OrphansReconciled ==
    cleaned[1] = "cleaned" =>
        /\ Canonical(files) =
               {n \in Canonical(cleaned[3]) : splitext(n) \in cleaned[2] \/ n \in cleaned[4]}
        /\ \A n \in Canonical(files) : files[n] = cleaned[3][n]
        /\ cleaned[5] = Cardinality(Canonical(cleaned[3]) \ Canonical(files))

\* a cleanup over two orphans: the deletion of one failed, the other is deleted
C6_Witness ==
    /\ cleaned[1] = "cleaned"
    /\ cleaned[2] = {}
    /\ Cardinality(cleaned[4]) = 1
    /\ Cardinality(Canonical(cleaned[3])) = 2
    /\ Canonical(files) = cleaned[4]

\* a cleanup that keeps the file of a game of the source set and deletes an orphan
C6_KeepsSourceWitness ==
    /\ cleaned[1] = "cleaned"
    /\ cleaned[5] = 1
    /\ \E n \in Canonical(files) : splitext(n) \in cleaned[2]

\* C7: once the raw file of a game is removed for good, then, while cycles
\* keep running and a deletion of its canonical file that is attempted again
\* and again succeeds, the canonical file of the game is eventually missing and
\* stays missing for ever
C7_OrphanEventuallyDeleted ==
    \A g \in Games : [](gone[g] => <>[](files[path_of(g)] = Absent))

\* the raw file of a game is gone for good while its canonical file exists
C7_Witness ==
    \E g \in Games : gone[g] /\ files[path_of(g)] # Absent

\* the raw file of a game is gone for good and a write of the game that read
\* it earlier is still in progress
C7_MidCycleWitness ==
    \E g \in Games : gone[g] /\ pc \in {"open", "dump", "replace"} /\ ids[idx] = g

\* C10: at the end of a cycle, every game listed in it is written, unless its
\* raw file could not be read, was empty, its own refinement raised, its own
\* write failed, or the cycle was aborted before its first game
C10_FailuresIsolated ==
    CycleOver =>
        \A i \in DOMAIN ids :
            cyc[ids[i]] \in {"unreadable", "skipped", "raised", "write_failed", "written",
                             "aborted"}

\* a cycle ended by the failure of one game before a readable game of the
\* same cycle was refined
C10_Witness ==
    /\ CycleOver
    /\ \E i, j \in DOMAIN ids : cyc[ids[i]] = "raised" /\ cyc[ids[j]] = "lost"

----------------------------------------------------------------------------
(* Properties of the loop *)

\* C11: an exception inside a cycle never ends the loop. With max_ticks = N
\* the loop terminates; it terminates only after N ticks; a cycle is running
\* only while fewer than N ticks are counted, and the count grows by one at the
\* end of each cycle, raised or not, so exactly N cycles are started. With
\* max_ticks absent a cycle ended by an exception is followed by the start of
\* the next cycle
C11_ExceptionEndsOnlyCycle ==
    /\ [](max_ticks # JNull => <>(pc = "done"))
    /\ [](pc = "done" => max_ticks # JNull /\ tick = max_ticks[2])
    /\ [](pc # "done" /\ max_ticks # JNull => tick < max_ticks[2])
    /\ [][max_ticks # JNull /\ tick' # tick => CycleOver /\ tick' = tick + 1]_vars
    /\ [][pc = "list" /\ pc' # "list" => tick' = tick]_vars
    /\ [](pc = "tick" /\ max_ticks = JNull => <>(pc = "list"))

\* the second of two cycles has raised, whatever the first did
C11_Witness ==
    /\ max_ticks = JNum(2)
    /\ tick = 1
    /\ pc = "tick"

\* without max_ticks a cycle has raised after the tick counter stopped counting
C11_UnboundedWitness ==
    /\ max_ticks = JNull
    /\ tick = MaxTicks
    /\ pc = "tick"

----------------------------------------------------------------------------
(* Properties of the status and the period *)

\* a key that the raw record does not have
Missing == <<"missing">>
Opt(k, v) == IF v = Missing THEN EmptyMap ELSE k :> v

\* raw status type names, states and periods
StatusNames ==
    {Missing, JNull, JStr(""), JStr(" "), JStr("STATUS_FINAL"), JStr("status_final"),
     JStr("STATUS_SCHEDULED"), JStr("STATUS_END_PERIOD"), JNum(5)}
StatusStates ==
    {Missing, JStr("pre"), JStr("in"), JStr("post"), JStr("halftime"), JStr("final"), JNum(5)}
RawPeriods ==
    {Missing, JNull, JNum(0), JNum(2), JNum(-3), JStr("3"), JStr(" 7 "), JStr("x"),
     JStr("12.5"), JFloat("12.5"), JFloat("0.0"), JBool(TRUE), JList(<< >>)}

\* a payload with an empty boxscore at top level and the status of a game
StatusPayload(name, state, period) ==
    JObj("players" :> JList(<< >>) @@
         "teams" :> JList(<< >>) @@
         "header" :> JObj("competitions" :> JList(<<
             JObj("status" :> JObj(("type" :> JObj(Opt("name", name) @@ Opt("state", state)))
                                   @@ Opt("period", period)))>>)))

\* payloads whose status cannot be found
StatuslessPayloads ==
    {JObj("players" :> JList(<< >>) @@ "teams" :> JList(<< >>) @@ Opt("header", h)) :
        h \in {Missing, JNull, JStr("none"), EmptyObj,
               JObj("competitions" :> JList(<< >>)),
               JObj("competitions" :> JList(<<JObj("status" :> JNull)>>)),
               JObj("competitions" :> JList(<<JObj("status" :> JObj("period" :> JNum(2)))>>)),
               JObj("competitions" :> JObj("status" :> JNum(1)))}}

StatusPayloads ==
    {StatusPayload(n, st, pd) : n \in StatusNames, st \in StatusStates, pd \in RawPeriods}
        \cup StatuslessPayloads

\* refine_boxscore and the merge applied to the status payloads
StatusInit ==
    /\ phase = "input"
    /\ raw \in StatusPayloads
    /\ roster_map = << >>
    /\ refined = JNull
    /\ merged = JNull
    /\ merged2 = JNull
    /\ CallIdle
    /\ LoopIdle
    /\ RosterIdle

StatusSpec == StatusInit /\ [][RefineNext]_vars

\* the raw status record of a status payload, and its parts
RawStatus(x) ==
    IF IsObj(Get(x, "header")) /\ IsList(Get(Get(x, "header"), "competitions"))
          /\ Get(Get(x, "header"), "competitions")[2] # << >>
          /\ IsObj(Get(Get(Get(x, "header"), "competitions")[2][1], "status"))
    THEN Get(Get(Get(x, "header"), "competitions")[2][1], "status")
    ELSE EmptyObj
RawStatusType(x) == IF IsObj(Get(RawStatus(x), "type")) THEN Get(RawStatus(x), "type") ELSE EmptyObj
RawState(x) == Get(RawStatusType(x), "state")
RawPeriod(x) == Get(RawStatus(x), "period")

StatusEnum ==
    {"STATUS_SCHEDULED", "STATUS_IN_PROGRESS", "STATUS_HALFTIME", "STATUS_FINAL",
     "STATUS_UNKNOWN"}

\* C12: the status of every refined document that has a boxscore root is one
\* of the five values of StatusEnum, with the STATUS_ prefix
C12_StatusInEnum ==
    phase # "input" /\ ~Raised(refined) => refined[2]["status"][2] \in StatusEnum

\* a raw status type name that is not one of the five, used as the status
C12_FailingInput ==
    /\ phase = "refined"
    /\ raw = StatusPayload(JStr("STATUS_END_PERIOD"), JStr("in"), JNum(2))
    /\ refined[2]["status"] = JStr("STATUS_END_PERIOD")

\* a document whose status was taken from a raw status type name
C12_Witness ==
    /\ phase = "refined"
    /\ IsStr(Get(RawStatusType(raw), "name"))
    /\ refined[2]["status"] = JStr("STATUS_FINAL")

\* C13: whenever the raw status state is "pre", the period of the refined
\* document is null
C13_PrePeriodNull ==
    phase # "input" /\ ~Raised(refined) /\ RawState(raw) = JStr("pre") =>
        refined[2]["period"] = JNull

\* a raw state "pre" under a raw status type name that is not the scheduled
\* one, with the raw period kept
C13_FailingInput ==
    /\ phase = "refined"
    /\ raw = StatusPayload(JStr("STATUS_FINAL"), JStr("pre"), JNum(2))
    /\ refined[2]["status"] = JStr("STATUS_FINAL")
    /\ refined[2]["period"] = JNum(2)

\* a document of a game whose raw state is "pre" and whose raw period is 2
C13_Witness ==
    /\ phase = "refined"
    /\ RawState(raw) = JStr("pre")
    /\ RawPeriod(raw) = JNum(2)
    /\ refined[2]["period"] = JNull

\* the integer a raw period parses to with int(), none when it does not
ParsedPeriod ==
    (JNum(0) :> 0) @@ (JNum(2) :> 2) @@ (JNum(-3) :> -3) @@ (JStr("3") :> 3) @@
    (JStr(" 7 ") :> 7) @@ (JFloat("12.5") :> 12) @@ (JFloat("0.0") :> 0) @@ (JBool(TRUE) :> 1)

\* C14: the period of a refined document is non-null only if the status is not
\* STATUS_SCHEDULED and the raw period parses to an integer greater than 0, and
\* then it is that integer
C14_PeriodOnlyPositive ==
    phase # "input" /\ ~Raised(refined) /\ refined[2]["period"] # JNull =>
        /\ refined[2]["status"] # JStr("STATUS_SCHEDULED")
        /\ RawPeriod(raw) \in DOMAIN ParsedPeriod
        /\ ParsedPeriod[RawPeriod(raw)] > 0
        /\ refined[2]["period"] = JNum(ParsedPeriod[RawPeriod(raw)])

\* a document with the period that a raw text parses to
C14_Witness ==
    /\ phase = "refined"
    /\ RawPeriod(raw) = JStr(" 7 ")
    /\ refined[2]["period"] = JNum(7)

\* a document without period because the raw period is not positive
C14_NullWitness ==
    /\ phase = "refined"
    /\ refined[2]["status"] = JStr("STATUS_IN_PROGRESS")
    /\ RawPeriod(raw) = JNum(-3)
    /\ refined[2]["period"] = JNull

----------------------------------------------------------------------------
(* The helper functions called on their own: _apply_category_mappings and    *)
(* coerce_number                                                             *)

\* values of a combined field and of a component field in a parsed record
CombinedValues ==
    {Missing, JNull, JStr(""), JStr(" "), JStr("4/6"), JStr("DNP"), JNum(0), JNum(7)}
ComponentValues == {Missing, JNum(0), JNum(3), JStr("3"), JStr("--"), JFloat("0.0")}
FewComponents == {Missing, JNum(0), JNum(3)}

\* parsed records of the categories passing and kicking
PassingRecords ==
    {Opt("completions/passingAttempts", c) @@ Opt("completions", a) @@ Opt("attempts", b) :
        c \in CombinedValues, a \in ComponentValues, b \in ComponentValues}
SackRecords ==
    {Opt("sacks-sackYardsLost", c) @@ Opt("sacks", a) @@ Opt("sackYardsLost", b)
        @@ Opt("sackYards", d) :
        c \in {Missing, JStr("2-14")}, a \in FewComponents, b \in FewComponents,
        d \in {Missing, JNum(8)}}
FieldGoalRecords ==
    {Opt("fieldGoalsMade/fieldGoalAttempts", c) @@ Opt("fgm", a) @@ Opt("fga", b) :
        c \in CombinedValues, a \in FewComponents, b \in FewComponents}
ExtraPointRecords ==
    {Opt("extraPointsMade/extraPointAttempts", c) @@ Opt("xpm", a) @@ Opt("xpa", b) :
        c \in CombinedValues, a \in FewComponents, b \in FewComponents}

\* the target of a first call, and a target that earlier calls have written
PriorTarget ==
    [init_target_stats EXCEPT
        !["passing"]["completions/passingAttempts"] = JStr("7/9"),
        !["passing"]["sacks-sackYardsLost"] = JStr("1-8"),
        !["kicking"]["fieldGoalsMade/fieldGoalAttempts"] = JStr("2/2"),
        !["kicking"]["extraPointsMade/extraPointAttempts"] = JStr("3/3")]
Targets == {init_target_stats, PriorTarget}

\* category names the mapper does not know, among them names that are no str,
\* and records for them: the empty field map and records with fields
OtherCatNames == {JStr("unknown"), JStr("scoring"), JStr(""), JNull, JNum(5)}
OtherRecords ==
    {EmptyMap,
     "completions/passingAttempts" :> JStr("4/6") @@ "passingYards" :> JNum(40),
     "fgm" :> JNum(3) @@ "fga" :> JNum(3) @@ "points" :> JNum(9)}

MapperCalls ==
    {<<"apply_category_mappings", t, n, p>> :
        t \in Targets, n \in {JStr("passing"), JStr("Passing")},
        p \in PassingRecords \cup SackRecords}
    \cup
    {<<"apply_category_mappings", t, JStr("kicking"), p>> :
        t \in Targets, p \in FieldGoalRecords \cup ExtraPointRecords}
    \cup
    {<<"apply_category_mappings", t, n, p>> :
        t \in Targets, n \in OtherCatNames \cup {JStr("passing"), JStr("kicking")},
        p \in OtherRecords}

\* arguments of coerce_number
CoerceValues ==
    {JNull, JStr(""), JStr("--"), JStr("-"), JStr("N/A"), JStr(" "),
     JStr("0"), JStr("7"), JStr("40"), JStr("-3"), JStr("1,234"), JStr(" 7 "),
     JStr("12.5"), JStr("0.0"), JStr("DNP"), JStr(" DNP "), JStr("3/5"), JStr("nan"),
     JNum(0), JNum(7), JFloat("12.5"), JBool(TRUE), JList(<< >>), EmptyObj}
CoerceCalls == {<<"coerce_number", v>> : v \in CoerceValues}

CallInit ==
    /\ phase = "call"
    /\ call \in MapperCalls \cup CoerceCalls
    /\ ret = NoCall
    /\ raw = JNull
    /\ roster_map = << >>
    /\ refined = JNull
    /\ merged = JNull
    /\ merged2 = JNull
    /\ LoopIdle
    /\ RosterIdle

\* _apply_category_mappings(target, cat_name, parsed): the target after the call
ApplyCategoryMappings ==
    /\ phase = "call"
    /\ call[1] = "apply_category_mappings"
    /\ ret' = apply_category_mappings(call[2], call[3], call[4])
    /\ phase' = "returned"
    /\ UNCHANGED <<call, raw, roster_map, refined, merged, merged2, loop_vars, po>>

\* coerce_number(val)
CoerceNumber ==
    /\ phase = "call"
    /\ call[1] = "coerce_number"
    /\ ret' = coerce_number(call[2])
    /\ phase' = "returned"
    /\ UNCHANGED <<call, raw, roster_map, refined, merged, merged2, loop_vars, po>>

CallNext == ApplyCategoryMappings \/ CoerceNumber

CallSpec == CallInit /\ [][CallNext]_vars

----------------------------------------------------------------------------
(* Properties of the mapper and of coerce_number (CallSpec) *)

\* the four combined fields: category, canonical field, first component, the
\* keys of the second component in order of preference, separator
CombinedFields ==
    {[cat |-> "passing", field |-> "completions/passingAttempts",
      a |-> "completions", b |-> <<"attempts">>, sep |-> "/"],
     [cat |-> "passing", field |-> "sacks-sackYardsLost",
      a |-> "sacks", b |-> <<"sackYardsLost", "sackYards">>, sep |-> "-"],
     [cat |-> "kicking", field |-> "fieldGoalsMade/fieldGoalAttempts",
      a |-> "fgm", b |-> <<"fga">>, sep |-> "/"],
     [cat |-> "kicking", field |-> "extraPointsMade/extraPointAttempts",
      a |-> "xpm", b |-> <<"xpa">>, sep |-> "/"]}

\* the raw category names of a canonical category
RawCatNames ==
    "passing" :> {JStr("passing"), JStr("Passing")} @@ "kicking" :> {JStr("kicking")}

\* a returned call of the mapper for the category of the combined field f
Mapped(f) ==
    /\ phase = "returned"
    /\ call[1] = "apply_category_mappings"
    /\ call[3] \in RawCatNames[f.cat]

\* the value of a key of the parsed record
RawField(parsed, k) == IF k \in DOMAIN parsed THEN parsed[k] ELSE Missing

\* the record supplies a non-empty value for the key
Supplies(parsed, k) == RawField(parsed, k) \notin {Missing, JNull, JStr(""), JStr(" ")}

\* C15: when the record of a passing or kicking category supplies a non-empty
\* combined field, the mapper writes that value verbatim to the canonical field,
\* whatever the component fields are
C15_CombinedVerbatim ==
    \A f \in CombinedFields :
        Mapped(f) /\ Supplies(call[4], f.field) =>
            /\ ~Raised(ret)
            /\ ret[2][f.cat][f.field] = call[4][f.field]

\* a combined "4/6" kept although the components say 3 and 3
C15_Witness ==
    /\ phase = "returned"
    /\ call[1] = "apply_category_mappings"
    /\ call[3] = JStr("passing")
    /\ call[4] = ("completions/passingAttempts" :> JStr("4/6") @@ "completions" :> JNum(3)
                  @@ "attempts" :> JNum(3))
    /\ ret[2]["passing"]["completions/passingAttempts"] = JStr("4/6")

\* the numbers that component values stand for, as texts, and the zero ones
ComponentText ==
    (Missing :> "0") @@ (JNum(0) :> "0") @@ (JNum(3) :> "3") @@ (JNum(8) :> "8") @@
    (JStr("3") :> "3") @@ (JStr("--") :> "0") @@ (JFloat("0.0") :> "0.0")
ZeroComponents == {Missing, JNum(0), JStr("--"), JFloat("0.0")}

\* the second component: the first of its keys with a non-zero value, else the last key
SecondComponent(parsed, keys) ==
    IF Len(keys) = 2 /\ RawField(parsed, keys[1]) \notin ZeroComponents
    THEN RawField(parsed, keys[1])
    ELSE RawField(parsed, keys[Len(keys)])

\* C16: when the record has no combined field, the canonical field becomes
\* "{a}/{b}" ("{a}-{b}" for sacks) of the two components if at least one of them
\* is non-zero, and keeps the value it had before the call if both are zero
C16_SynthesizedIfNonZero ==
    \A f \in CombinedFields :
        Mapped(f) /\ f.field \notin DOMAIN call[4] =>
            /\ ~Raised(ret)
            /\ ret[2][f.cat][f.field] =
                 IF RawField(call[4], f.a) \in ZeroComponents
                    /\ SecondComponent(call[4], f.b) \in ZeroComponents
                 THEN call[2][f.cat][f.field]
                 ELSE JStr(ComponentText[RawField(call[4], f.a)] \o f.sep
                           \o ComponentText[SecondComponent(call[4], f.b)])

\* "3/5"-like synthesis: completions 3 and no attempts give "3/0"
C16_Witness ==
    /\ phase = "returned"
    /\ call[1] = "apply_category_mappings"
    /\ call[3] = JStr("passing")
    /\ call[4] = ("completions" :> JNum(3))
    /\ ret[2]["passing"]["completions/passingAttempts"] = JStr("3/0")

\* both components zero: the value written by an earlier call stays
C16_KeptWitness ==
    /\ phase = "returned"
    /\ call[1] = "apply_category_mappings"
    /\ call[2] = PriorTarget
    /\ call[4] = ("sacks" :> JNum(0) @@ "sackYardsLost" :> JNum(0))
    /\ ret[2]["passing"]["sacks-sackYardsLost"] = JStr("1-8")

\* what coerce_number is said to return for the arguments that are None or a str
Coerced ==
    (JNull :> JNum(0)) @@ (JStr("") :> JNum(0)) @@ (JStr("--") :> JNum(0)) @@
    (JStr("-") :> JNum(0)) @@ (JStr("N/A") :> JNum(0)) @@
    (JStr("0") :> JNum(0)) @@ (JStr("7") :> JNum(7)) @@ (JStr("40") :> JNum(40)) @@
    (JStr("-3") :> JNum(-3)) @@ (JStr("1,234") :> JNum(1234)) @@
    (JStr("12.5") :> JFloat("12.5")) @@ (JStr("0.0") :> JFloat("0.0")) @@
    (JStr("DNP") :> JStr("DNP")) @@ (JStr("3/5") :> JStr("3/5")) @@
    (JStr(" DNP ") :> JStr(" DNP ")) @@ (JStr("nan") :> JStr("nan"))

\* C17: coerce_number never raises; None and the tokens "", "--", "-", "N/A"
\* give 0, a string that is an integer after removing the thousands separators
\* gives the integer, a decimal string gives the number, and any other string
\* is returned unchanged
C17_CoerceNumber ==
    phase = "returned" /\ call[1] = "coerce_number" =>
        /\ ~Raised(ret)
        /\ call[2] \in DOMAIN Coerced => ret = Coerced[call[2]]

\* the same for the strings without surrounding blanks that are no spelling of
\* a float other than a decimal number
C17_TrimmedStrings ==
    phase = "returned" /\ call[1] = "coerce_number"
        /\ call[2] \in DOMAIN Coerced \ {JStr(" DNP "), JStr("nan")} =>
            ret = Coerced[call[2]]

\* a string with blanks around it comes back without them
C17_FailingInput ==
    /\ phase = "returned"
    /\ call = <<"coerce_number", JStr(" DNP ")>>
    /\ ret = JStr("DNP")

\* "nan" comes back as a float
C17_NanInput ==
    /\ phase = "returned"
    /\ call = <<"coerce_number", JStr("nan")>>
    /\ ret = JFloat("nan")

----------------------------------------------------------------------------
(* refine_boxscore applied to payloads with scoring plays *)

MaxPlays == 3

\* well-formed scoring plays: a team id and an abbreviation under type, or under
\* scoringType and type with two different abbreviations
ScoringPlayRecords ==
    {JObj("team" :> JObj("id" :> t) @@ "type" :> JObj("abbreviation" :> JStr(a))) :
        t \in {JStr("1"), JNum(2)}, a \in {"TD", "FG", "S"}}
    \cup
    {JObj("team" :> JObj("id" :> JStr("1")) @@ "type" :> JObj("abbreviation" :> JStr("XP"))),
     JObj("team" :> JObj("id" :> JStr("3")) @@ "type" :> JObj("abbreviation" :> JStr("TD"))),
     JObj("team" :> JObj("id" :> JStr("1")) @@
          "scoringType" :> JObj("abbreviation" :> JStr("TD")) @@
          "type" :> JObj("abbreviation" :> JStr("FG"))),
     JObj("team" :> JObj("id" :> JNum(2)) @@
          "scoringType" :> JObj("abbreviation" :> JStr("S")) @@
          "type" :> JObj("abbreviation" :> JStr("TD")))}

\* a boxscore of the teams 1 (KC, with a passer) and 2 (BUF), and its scoring plays
ScoringPayload(plays) ==
    JObj("players" :> JList(<<JObj("team" :> TeamKC @@
                                   "statistics" :> JList(<<PassingCat(<<AthBob>>)>>))>>) @@
         "teams" :> TeamsBoth @@
         "header" :> Header @@
         "scoringPlays" :> JList(plays))

ScoringPayloads ==
    {ScoringPayload(plays) : plays \in SeqsUpTo(ScoringPlayRecords, MaxPlays) \ {<< >>}}

ScoringInit ==
    /\ phase = "input"
    /\ raw \in ScoringPayloads
    /\ roster_map \in {<< >>}
    /\ refined = JNull
    /\ merged = JNull
    /\ merged2 = JNull
    /\ CallIdle
    /\ LoopIdle
    /\ RosterIdle

ScoringSpec == ScoringInit /\ [][RefineNext]_vars

\* the team id that a scoring play references, as the text of a team id
PlayTeam(sp) ==
    CASE sp[2]["team"][2]["id"] = JStr("1") -> "1"
      [] sp[2]["team"][2]["id"] = JNum(2) -> "2"
      [] sp[2]["team"][2]["id"] = JStr("3") -> "3"

\* the abbreviation of a scoring play, scoringType before type
PlayAbbreviation(sp) ==
    IF "scoringType" \in DOMAIN sp[2]
    THEN sp[2]["scoringType"][2]["abbreviation"][2]
    ELSE sp[2]["type"][2]["abbreviation"][2]

\* the number of plays of a team with an abbreviation
PlayCount(plays, tid, abbr) ==
    Cardinality({i \in DOMAIN plays :
                    PlayTeam(plays[i]) = tid /\ PlayAbbreviation(plays[i]) = abbr})

\* C18: with a non-empty list of well-formed scoring plays, the scoring
\* category of every team of the document holds as touchdowns, fieldGoals and
\* safeties the numbers of plays of that team with abbreviation TD, FG and S
C18_ScoringCounts ==
    phase # "input" /\ raw \in ScoringPayloads =>
        /\ ~Raised(refined)
        /\ \A i \in DOMAIN refined[2]["teams"] :
              refined[2]["teams"][i]["stats"]["scoring"] =
                  LET tid == refined[2]["teams"][i]["teamId"][2]
                      plays == raw[2]["scoringPlays"][2]
                  IN  ("touchdowns" :> JNum(PlayCount(plays, tid, "TD")) @@
                       "fieldGoals" :> JNum(PlayCount(plays, tid, "FG")) @@
                       "safeties" :> JNum(PlayCount(plays, tid, "S")))

\* team 1 with two touchdowns, one of them named by scoringType against type,
\* and team 2 without a play
C18_Witness ==
    /\ phase = "refined"
    /\ raw \in ScoringPayloads
    /\ Len(raw[2]["scoringPlays"][2]) = 3
    /\ \E i \in DOMAIN raw[2]["scoringPlays"][2] :
          "scoringType" \in DOMAIN raw[2]["scoringPlays"][2][i][2]
    /\ \E i, j \in DOMAIN refined[2]["teams"] :
          /\ refined[2]["teams"][i]["teamId"] = JStr("1")
          /\ refined[2]["teams"][i]["stats"]["scoring"]["touchdowns"] = JNum(2)
          /\ refined[2]["teams"][i]["stats"]["scoring"]["fieldGoals"] = JNum(0)
          /\ refined[2]["teams"][j]["teamId"] = JStr("2")
          /\ refined[2]["teams"][j]["stats"]["scoring"] =
                ("touchdowns" :> JNum(0) @@ "fieldGoals" :> JNum(0) @@ "safeties" :> JNum(0))

----------------------------------------------------------------------------
(* refine_boxscore applied to payloads whose team ids repeat *)

MaxBlocks == 2

\* elements of box["players"]: team 1 with and without its names, team 1 under
\* other names, team 2
PlayerBlocks ==
    {JObj("team" :> TeamKC @@ "statistics" :> JList(<<PassingCat(<<AthBob>>)>>)),
     JObj("team" :> JObj("id" :> JStr("1")) @@ "statistics" :> JList(<<RushingCat>>)),
     JObj("team" :> JObj("id" :> JNum(1) @@ "abbreviation" :> JStr("KCC") @@
                         "displayName" :> JStr("Kansas")) @@
          "statistics" :> JList(<< >>)),
     BlockBUF}

\* elements of box["teams"]: team 1 under other names, team 1 and team 2 as in
\* the players array, team 2 without names
TeamBlocks ==
    {JObj("team" :> JObj("id" :> JStr("1") @@ "abbreviation" :> JStr("KAN") @@
                         "displayName" :> JStr("Kansas City")) @@
          "homeAway" :> JStr("home") @@ "displayOrder" :> JNum(1)),
     JObj("team" :> TeamKC @@ "homeAway" :> JStr("away")),
     JObj("team" :> TeamBUF @@ "homeAway" :> JStr("away") @@ "displayOrder" :> JNum(2)),
     JObj("team" :> JObj("id" :> JStr("2")))}

TeamPayloads ==
    {JObj("players" :> JList(ps) @@ "teams" :> JList(ts) @@ Opt("header", h)) :
        ps \in SeqsUpTo(PlayerBlocks, MaxBlocks), ts \in SeqsUpTo(TeamBlocks, MaxBlocks),
        h \in {Missing, Header}}

TeamInit ==
    /\ phase = "input"
    /\ raw \in TeamPayloads
    /\ roster_map \in {<< >>}
    /\ refined = JNull
    /\ merged = JNull
    /\ merged2 = JNull
    /\ CallIdle
    /\ LoopIdle
    /\ RosterIdle

TeamSpec == TeamInit /\ [][RefineNext]_vars

\* teams_out as the stat pass left it
StatPassTeams == stat_pass(raw, extract_scores(raw))[2]

\* the abbreviations and names that the teams array offers for a team id
Offered(tid, field) ==
    {Get(Get(raw[2]["teams"][2][i], "team"), field) : i \in
        {j \in DOMAIN raw[2]["teams"][2] :
            PyStr(Get(Get(raw[2]["teams"][2][j], "team"), "id")) = tid}}

\* a field that was set stays, a field that was missing stays or is filled
\* with an offered value
KeptOrFilled(before, after, field) ==
    IF Truthy(before[field]) THEN after[field] = before[field]
    ELSE after[field] = before[field] \/ after[field] \in Offered(before["teamId"][2], field)

\* the entry of the stat pass is kept by an entry of the teams after both passes
KeptEntry(before, after) ==
    /\ after["teamId"] = before["teamId"]
    /\ KeptOrFilled(before, after, "abbreviation")
    /\ KeptOrFilled(before, after, "displayName")
    /\ after["score"] = before["score"]
    /\ after["stats"] = before["stats"]
    /\ after["players"] = before["players"]

\* C19: the teams of a refined document have pairwise different team ids, and
\* a team created by the stat pass keeps the abbreviation, displayName, score,
\* stats and players that the stat pass gave it; only missing fields are filled
C19_OneEntryPerTeam ==
    phase = "refined" /\ raw \in TeamPayloads =>
        /\ \A i, j \in DOMAIN refined[2]["teams"] :
              refined[2]["teams"][i]["teamId"] = refined[2]["teams"][j]["teamId"] => i = j
        /\ With(StatPassTeams, LAMBDA before :
                \A k \in DOMAIN before :
                    \E i \in DOMAIN refined[2]["teams"] :
                        KeptEntry(before[k], refined[2]["teams"][i]))

\* refine_boxscore raises on none of these payloads
C19_Refined == raw \in TeamPayloads => phase # "raised"

\* team 1 occurs twice in the players array and, under other names, in the
\* teams array: one entry, with the names and the player of the stat pass
C19_Witness ==
    /\ phase = "refined"
    /\ raw \in TeamPayloads
    /\ Len(raw[2]["players"][2]) = 2
    /\ Get(raw[2]["players"][2][1], "team") = TeamKC
    /\ PyStr(Get(Get(raw[2]["players"][2][2], "team"), "id")) = "1"
    /\ JStr("KAN") \in Offered("1", "abbreviation")
    /\ Len(refined[2]["teams"]) = 1
    /\ refined[2]["teams"][1]["abbreviation"] = JStr("KC")
    /\ refined[2]["teams"][1]["displayName"] = JStr("Chiefs")
    /\ refined[2]["teams"][1]["homeAway"] = JStr("home")
    /\ Len(refined[2]["teams"][1]["players"]) = 1

\* a team that the stat pass created without names gets them from the teams array
C19_FilledWitness ==
    /\ phase = "refined"
    /\ raw \in TeamPayloads
    /\ Len(StatPassTeams) = 1
    /\ StatPassTeams[1]["abbreviation"] = JNull
    /\ Len(refined[2]["teams"]) = 1
    /\ refined[2]["teams"][1]["abbreviation"] = JStr("KAN")
    /\ refined[2]["teams"][1]["stats"] = StatPassTeams[1]["stats"]

----------------------------------------------------------------------------
(* _merge_roster_zero_init applied to documents whose players are on a      *)
(* roster with other metadata                                               *)

\* a roster of team 1 that names the boxscore players 10 (Bob) and ADAM with
\* another name, position, jersey and headshot
RosterOther ==
    [fname |-> "1.json",
     data |-> JObj("team" :> JObj("id" :> JStr("1") @@ "abbreviation" :> JStr("KC")) @@
                   "athletes" :> JList(<<
                      JObj("id" :> JStr("10") @@ "displayName" :> JStr("Robert") @@
                           "jersey" :> JStr("99") @@ "position" :> JStr("WR") @@
                           "headshot" :> JObj("href" :> JStr("http://img/12"))),
                      JObj("displayName" :> JStr("ADAM") @@ "jersey" :> JStr("88") @@
                           "position" :> JStr("WR")),
                      JObj("id" :> JStr("11") @@ "displayName" :> JStr("Dan") @@
                           "jersey" :> JStr("4"))>>))]

MergeRosterStores == {<<RosterOther>>, <<RosterOther, RosterBUF>>, <<RosterKC, RosterOther>>}

MergeRosterMaps ==
    {load_roster_players(roster_files, Len(roster_files))[2] : roster_files \in MergeRosterStores}

\* the boxscores of the first family under a header and scoring plays
MergePayloads ==
    {Payload("boxscore", JObj("players" :> JList(<<b>> \o r) @@ "teams" :> TeamsBoth)) :
        b \in FirstBlocks, r \in {<< >>, <<BlockBUF>>}}

MergeInit ==
    /\ phase = "input"
    /\ raw \in MergePayloads
    /\ roster_map \in MergeRosterMaps
    /\ refined = JNull
    /\ merged = JNull
    /\ merged2 = JNull
    /\ CallIdle
    /\ LoopIdle
    /\ RosterIdle

MergeSpec == MergeInit /\ [][RefineNext]_vars

\* the value is empty for the backfill
EmptyMeta(v) == v \in {JNull, JStr("")}

\* the default of a stats field
FieldDefault(cat, k) ==
    IF cat \in DOMAIN DEFAULT_CATEGORIES /\ k \in DOMAIN DEFAULT_CATEGORIES[cat]
       /\ IsStr(DEFAULT_CATEGORIES[cat][k])
    THEN DEFAULT_CATEGORIES[cat][k] ELSE JNum(0)

\* q is the player p after the merge: identity and populated metadata kept,
\* every stats field of p kept, every other stats field of q at its default
MergedFrom(p, q) ==
    /\ q.athleteId = p.athleteId
    /\ q.fullName = p.fullName
    /\ \A f \in {"position", "jersey", "headshot"} : ~EmptyMeta(p[f]) => q[f] = p[f]
    /\ \A cat \in DOMAIN p.stats :
          /\ cat \in DOMAIN q.stats
          /\ \A k \in DOMAIN p.stats[cat] :
                k \in DOMAIN q.stats[cat] /\ q.stats[cat][k] = p.stats[cat][k]
    /\ \A cat \in DOMAIN q.stats : \A k \in DOMAIN q.stats[cat] :
          (cat \in DOMAIN p.stats /\ k \in DOMAIN p.stats[cat])
              \/ q.stats[cat][k] = FieldDefault(cat, k)

\* C20: _merge_roster_zero_init overwrites nothing: every player of the
\* document before the merge is in the same team after it with the same
\* athleteId and fullName, every non-empty position, jersey and headshot and
\* every stats field it had; the merge fills only empty metadata and absent
\* stats fields, these with their default
C20_MergeKeepsData ==
    phase = "merged" =>
        /\ DOMAIN merged["teams"] = DOMAIN refined[2]["teams"]
        /\ \A ij \in TeamPlayers(refined[2]) :
              \E j \in DOMAIN merged["teams"][ij[1]]["players"] :
                  MergedFrom(refined[2]["teams"][ij[1]]["players"][ij[2]],
                             merged["teams"][ij[1]]["players"][j])

\* Bob (10) keeps jersey 15 and position QB against the roster's 99 and WR,
\* and his passing line, next to a player inserted from the roster
C20_Witness ==
    /\ phase = "merged"
    /\ raw \in MergePayloads
    /\ \E i \in DOMAIN merged["teams"] : \E j, k \in DOMAIN merged["teams"][i]["players"] :
          /\ merged["teams"][i]["players"][j].athleteId = JStr("10")
          /\ merged["teams"][i]["players"][j].fullName = JStr("Bob")
          /\ merged["teams"][i]["players"][j].jersey = JStr("15")
          /\ merged["teams"][i]["players"][j].position = JStr("QB")
          /\ merged["teams"][i]["players"][j].stats["passing"]["completions/passingAttempts"]
                = JStr("3/5")
          /\ merged["teams"][i]["players"][k].athleteId = JStr("11")
          /\ merged["teams"][i]["players"][k].jersey = JStr("4")

\* ADAM, who came without jersey and position, has them from the roster
C20_BackfillWitness ==
    /\ phase = "merged"
    /\ raw \in MergePayloads
    /\ \E i \in DOMAIN refined[2]["teams"] : \E j \in DOMAIN refined[2]["teams"][i]["players"] :
          /\ refined[2]["teams"][i]["players"][j].fullName = JStr("ADAM")
          /\ refined[2]["teams"][i]["players"][j].jersey = JStr("")
    /\ \E i \in DOMAIN merged["teams"] : \E j \in DOMAIN merged["teams"][i]["players"] :
          /\ merged["teams"][i]["players"][j].fullName = JStr("ADAM")
          /\ merged["teams"][i]["players"][j].jersey = JStr("88")
          /\ merged["teams"][i]["players"][j].position = JStr("WR")

----------------------------------------------------------------------------
(* Properties of the merged players (RefineSpec) *)

\* the identity keys of the players of a team
PlayerKeys(team) == {PlayerKey(team["players"][j]) : j \in DOMAIN team["players"]}

\* the keys under which the roster of a team is looked for
TeamKeys(team) ==
    (IF IsStr(team["abbreviation"]) /\ team["abbreviation"][2] # ""
     THEN {team["abbreviation"][2], Upper(team["abbreviation"][2])} ELSE {})
    \cup (IF team["teamId"] # JNull THEN {PyStr(team["teamId"])} ELSE {})

\* the entries of the roster map that are found for a team, and their keys
RostersOf(team) == {k \in DOMAIN roster_map : roster_map[k].key \in TeamKeys(team)}
RosterKeys(team) ==
    UNION {{roster_map[k].val[j].key : j \in DOMAIN roster_map[k].val} : k \in RostersOf(team)}

\* C21: after _merge_roster_zero_init the identity keys of the players of
\* every team whose roster is found are the keys before the merge together
\* with the keys of the roster, and each key occurs once in the players list
C21_KeysAreUnion ==
    phase = "merged" =>
        \A i \in DOMAIN merged["teams"] :
            RostersOf(refined[2]["teams"][i]) # {} =>
                /\ PlayerKeys(merged["teams"][i]) =
                      PlayerKeys(refined[2]["teams"][i]) \cup RosterKeys(refined[2]["teams"][i])
                /\ Len(merged["teams"][i]["players"]) = Cardinality(PlayerKeys(merged["teams"][i]))

\* a team with a boxscore player who is on the roster (10), one who is not
\* (11) and a roster player who is not in the boxscore (12)
C21_Witness ==
    /\ phase = "merged"
    /\ \E i \in DOMAIN merged["teams"] :
          /\ RostersOf(refined[2]["teams"][i]) # {}
          /\ {"10", "11"} \subseteq PlayerKeys(refined[2]["teams"][i])
          /\ "12" \notin PlayerKeys(refined[2]["teams"][i])
          /\ "12" \in PlayerKeys(merged["teams"][i])
          /\ Len(merged["teams"][i]["players"]) >= 4

----------------------------------------------------------------------------
(* Properties of the teams of a refined document (RefineSpec) *)

ScoringFields == {"touchdowns", "fieldGoals", "safeties"}

\* the stats hold every default category and the scoring category, each with
\* all its fields
HasAllCategories(stats) ==
    /\ \A cat \in DOMAIN DEFAULT_CATEGORIES :
          cat \in DOMAIN stats /\ DOMAIN DEFAULT_CATEGORIES[cat] \subseteq DOMAIN stats[cat]
    /\ "scoring" \in DOMAIN stats
    /\ ScoringFields \subseteq DOMAIN stats["scoring"]

\* the payload carries a list of scoring plays that is not empty
HasScoringPlays(x) ==
    IsObj(x) /\ IsList(Get(x, "scoringPlays")) /\ Get(x, "scoringPlays")[2] # << >>

\* C22: every team of every refined document that has a boxscore root holds
\* every known category, scoring included, with its full field set, also when
\* the payload has no scoring plays
C22_TeamCategoriesComplete ==
    phase # "input" /\ ~Raised(refined) /\ "teams" \in DOMAIN refined[2] =>
        \A i \in DOMAIN refined[2]["teams"] : HasAllCategories(refined[2]["teams"][i]["stats"])

\* a team refined from a payload without scoring plays has the ten default
\* categories but no scoring category
C22_FailingInput ==
    /\ phase = "refined"
    /\ ~HasScoringPlays(raw)
    /\ \E i \in DOMAIN refined[2]["teams"] :
          /\ DOMAIN DEFAULT_CATEGORIES \subseteq DOMAIN refined[2]["teams"][i]["stats"]
          /\ "scoring" \notin DOMAIN refined[2]["teams"][i]["stats"]

\* the teams of the documents refined from payloads with scoring plays are complete
C22_CompleteWithPlays ==
    phase # "input" /\ ~Raised(refined) /\ HasScoringPlays(raw) =>
        \A i \in DOMAIN refined[2]["teams"] : HasAllCategories(refined[2]["teams"][i]["stats"])

----------------------------------------------------------------------------
(* The frame of a refinement cycle: the raw directory and the roster        *)
(* directory                                                                *)

\* a step of the raw poller, the only writer of the raw directory in the model
PollerStep == envSteps' # envSteps

\* C23: no step of main_loop (start of a cycle, cleanup, refinement of a game,
\* the steps of write_json, the sleep) changes the raw directory or the roster
\* directory: their files and the content of every file are after the step what
\* they were before it; the cycle creates, replaces and deletes files of the
\* output directory only
C23_OnlyOutputStore ==
    [][~PollerStep => rawStore' = rawStore /\ rosterStore' = rosterStore]_vars

\* a cycle has committed the document of a game that had none; the raw file of
\* the game and the roster file are there
C23_Witness ==
    /\ lastw[1] = "returned"
    /\ lastw[3]
    /\ lastw[4][path_of(lastw[2])] = Absent
    /\ files[path_of(lastw[2])] # Absent
    /\ rawStore[lastw[2]] \in RawStates \ {Absent, Unreadable}
    /\ rosterStore = RosterFiles

\* a cycle has deleted an orphan of the output directory
C23_CleanupWitness ==
    /\ cleaned[1] = "cleaned"
    /\ \E n \in Canonical(cleaned[3]) : files[n] = Absent
    /\ rosterStore = RosterFiles

----------------------------------------------------------------------------
(* The teams of a document with scoring plays *)

\* the team ids of the players and teams arrays of a boxscore root
RootTeamIds(box) ==
    {PyStr(box[2][key][2][i][2]["team"][2]["id"]) :
        <<key, i>> \in {ki \in {"players", "teams"} \X (1..MaxBlocks) :
                           ki[2] \in DOMAIN box[2][ki[1]][2]}}

\* the plays of a list that reference a team of a set
PlaysOf(plays, tids) == {i \in DOMAIN plays : PlayTeam(plays[i]) \in tids}

\* the sum of the three counts of the scoring category of the teams i..
RECURSIVE ScoringTotal(_, _)
ScoringTotal(teams, i) ==
    IF i > Len(teams) THEN 0
    ELSE teams[i]["stats"]["scoring"]["touchdowns"][2]
         + teams[i]["stats"]["scoring"]["fieldGoals"][2]
         + teams[i]["stats"]["scoring"]["safeties"][2]
         + ScoringTotal(teams, i + 1)

\* C24: the scoring plays never change the set of teams: the team ids of the
\* document are exactly the ids of the players and teams arrays of the root,
\* each once, and a play of a team outside that set adds no team and no count:
\* the counts of all teams add up to the number of TD, FG and S plays of the
\* teams of the document
C24_ScoringKeepsTeams ==
    phase # "input" /\ raw \in ScoringPayloads =>
        /\ ~Raised(refined)
        /\ {refined[2]["teams"][i]["teamId"][2] : i \in DOMAIN refined[2]["teams"]}
              = RootTeamIds(raw)
        /\ Len(refined[2]["teams"]) = Cardinality(RootTeamIds(raw))
        /\ ScoringTotal(refined[2]["teams"], 1) =
              Cardinality({i \in PlaysOf(raw[2]["scoringPlays"][2], RootTeamIds(raw)) :
                              PlayAbbreviation(raw[2]["scoringPlays"][2][i])
                                  \in {"TD", "FG", "S"}})

\* a touchdown of team 3, which is not in the boxscore, next to a touchdown of
\* team 1: two teams in the document, one touchdown in all
C24_Witness ==
    /\ phase = "refined"
    /\ raw \in ScoringPayloads
    /\ \E i, j \in DOMAIN raw[2]["scoringPlays"][2] :
          /\ PlayTeam(raw[2]["scoringPlays"][2][i]) = "3"
          /\ PlayTeam(raw[2]["scoringPlays"][2][j]) = "1"
          /\ PlayAbbreviation(raw[2]["scoringPlays"][2][j]) = "TD"
    /\ Len(refined[2]["teams"]) = 2
    /\ ScoringTotal(refined[2]["teams"], 1) = 1

----------------------------------------------------------------------------
(* The order of the players of a merged document *)

\* the lower-cased fullName and the athleteId of a player, None as ""
LowerFullName(p) == IF p.fullName = JNull THEN "" ELSE LowerName(p.fullName[2])
AthleteIdText(p) == IF p.athleteId = JNull THEN "" ELSE p.athleteId[2]

\* p does not come after q: the name is smaller, or the names are equal and
\* the id is not greater
NotAfter(p, q) ==
    \/ TextRank(LowerFullName(p)) < TextRank(LowerFullName(q))
    \/ /\ LowerFullName(p) = LowerFullName(q)
       /\ TextRank(AthleteIdText(p)) <= TextRank(AthleteIdText(q))

IsSortedByName(players) ==
    \A j \in 1..(Len(players) - 1) : NotAfter(players[j], players[j + 1])

\* C25: after _merge_roster_zero_init the players of every team, also of a
\* team without roster and of a team without players, are a list in ascending
\* order of the lower-cased fullName, players of one name in ascending order
\* of the athleteId
C25_PlayersSorted ==
    phase = "merged" =>
        \A i \in DOMAIN merged["teams"] : IsSortedByName(merged["teams"][i]["players"])

\* ADAM before the two players named Bob, 10 before 12, in a team whose
\* players came with Bob before ADAM
C25_Witness ==
    /\ phase = "merged"
    /\ \E i \in DOMAIN merged["teams"] :
          /\ \E j, k \in DOMAIN refined[2]["teams"][i]["players"] :
                /\ j < k
                /\ refined[2]["teams"][i]["players"][j].fullName = JStr("Bob")
                /\ refined[2]["teams"][i]["players"][k].fullName = JStr("ADAM")
          /\ Len(merged["teams"][i]["players"]) >= 3
          /\ merged["teams"][i]["players"][1].fullName = JStr("ADAM")
          /\ merged["teams"][i]["players"][2].athleteId = JStr("10")
          /\ merged["teams"][i]["players"][2].fullName = JStr("Bob")
          /\ merged["teams"][i]["players"][3].athleteId = JStr("12")
          /\ merged["teams"][i]["players"][3].fullName = JStr("Bob")

\* without any roster: a team whose players came with Bob before ADAM, and a
\* team without players
C25_NoRosterWitness ==
    /\ phase = "merged"
    /\ roster_map = << >>
    /\ \E i, k \in DOMAIN merged["teams"] :
          /\ \E j \in DOMAIN refined[2]["teams"][i]["players"] :
                /\ j > 1
                /\ refined[2]["teams"][i]["players"][1].fullName = JStr("Bob")
                /\ refined[2]["teams"][i]["players"][j].fullName = JStr("ADAM")
          /\ Len(merged["teams"][i]["players"]) >= 2
          /\ merged["teams"][i]["players"][1].fullName = JStr("ADAM")
          /\ merged["teams"][i]["players"][2].fullName = JStr("Bob")
          /\ merged["teams"][k]["players"] = << >>

----------------------------------------------------------------------------
(* refine_boxscore applied to payloads that offer a boxscore in several     *)
(* places                                                                   *)

\* boxscores that differ in their teams: KC alone, BUF alone, both
BoxKC ==
    JObj("players" :> JList(<<JObj("team" :> TeamKC @@
                                   "statistics" :> JList(<<PassingCat(<<AthBob>>)>>))>>) @@
         "teams" :> JList(<<JObj("team" :> TeamKC)>>))
BoxBUF ==
    JObj("players" :> JList(<<BlockBUF>>) @@ "teams" :> JList(<<JObj("team" :> TeamBUF)>>))
BoxBoth ==
    JObj("players" :> JList(<<JObj("team" :> TeamKC @@ "statistics" :> JList(<< >>)),
                              BlockBUF>>) @@
         "teams" :> TeamsBoth)

\* what the top level holds besides: nothing, a players array alone, the
\* players and teams arrays of a boxscore
TopLevels == {EmptyMap, "players" :> BoxKC[2]["players"], BoxKC[2]}

\* the value under the boxscore key, and the value under the summary key
NestedValues == {Missing, JNull, JNum(5), EmptyObj, BoxBUF}
SummaryValues == {Missing, JNull, EmptyObj, JObj("boxscore" :> BoxBoth)}

RootPayloads ==
    {JObj(top @@ Opt("boxscore", nested) @@ Opt("summary", summ) @@ ("header" :> Header)) :
        top \in TopLevels, nested \in NestedValues, summ \in SummaryValues}

RootInit ==
    /\ phase = "input"
    /\ raw \in RootPayloads
    /\ roster_map \in {<< >>}
    /\ refined = JNull
    /\ merged = JNull
    /\ merged2 = JNull
    /\ CallIdle
    /\ LoopIdle
    /\ RosterIdle

RootSpec == RootInit /\ [][RefineNext]_vars

\* the first of the three places that holds a boxscore object, JNull if none does
FirstMatch(data) ==
    IF "players" \in DOMAIN data[2] /\ "teams" \in DOMAIN data[2] THEN data
    ELSE IF "boxscore" \in DOMAIN data[2] /\ IsObj(data[2]["boxscore"])
         THEN data[2]["boxscore"]
    ELSE IF "summary" \in DOMAIN data[2] /\ IsObj(data[2]["summary"])
            /\ "boxscore" \in DOMAIN data[2]["summary"][2]
         THEN data[2]["summary"][2]["boxscore"]
    ELSE JNull

\* the document is the one refined from a boxscore: no note and its teams
RefinedFrom(box) ==
    /\ ~Raised(refined)
    /\ "note" \notin DOMAIN refined[2]
    /\ {refined[2]["teams"][i]["teamId"][2] : i \in DOMAIN refined[2]["teams"]}
          = RootTeamIds(box)

IsNoteDocument ==
    /\ ~Raised(refined)
    /\ "note" \in DOMAIN refined[2]
    /\ refined[2]["teams"] = << >>

\* C26: the document is refined from the first match of: the top level with
\* players and teams, the object under boxscore, summary.boxscore; the note
\* document is returned only if none matches (a boxscore key that holds an
\* empty object is left open)
C26_RootIsFirstMatch ==
    phase # "input" /\ raw \in RootPayloads =>
        LET box == FirstMatch(raw)
        IN  IF box = JNull THEN IsNoteDocument
            ELSE box = EmptyObj \/ RefinedFrom(box)

\* boxscore: null next to a summary.boxscore with two teams gives the note document
C26_FailingInput ==
    /\ phase = "refined"
    /\ raw = JObj("boxscore" :> JNull @@ "summary" :> JObj("boxscore" :> BoxBoth) @@
                  "header" :> Header)
    /\ IsNoteDocument

\* with a boxscore key that is absent or holds an object the order is the
\* claimed one
C26_OrderOfObjects ==
    phase # "input" /\ raw \in RootPayloads
    /\ ("boxscore" \in DOMAIN raw[2] => IsObj(raw[2]["boxscore"])) =>
        LET box == FirstMatch(raw)
        IN  IF box = JNull THEN IsNoteDocument
            ELSE box = EmptyObj \/ RefinedFrom(box)

\* the summary.boxscore is the root of a payload without a boxscore key
C26_SummaryWitness ==
    /\ phase = "refined"
    /\ raw \in RootPayloads
    /\ "boxscore" \notin DOMAIN raw[2]
    /\ "players" \in DOMAIN raw[2]
    /\ RefinedFrom(BoxBoth)

----------------------------------------------------------------------------
(* The mapper on category names it does not know and on empty field maps *)

\* the category names of lines 283-407, lower-cased
RecognizedNames ==
    {"passing", "rushing", "receiving", "fumbles", "defense", "defensive", "interceptions",
     "kickreturns", "puntreturns", "kicking", "punting"}

Recognized(cat_name) == IsStr(cat_name) /\ Lower(cat_name[2]) \in RecognizedNames

\* a returned call of the mapper
MapperReturned == phase = "returned" /\ call[1] = "apply_category_mappings"

\* C27: _apply_category_mappings never raises, and with a category name that
\* is not recognized or with an empty field map it leaves the target as it was
C27_MapperNeverRaises ==
    MapperReturned =>
        /\ ~Raised(ret)
        /\ (~Recognized(call[3]) \/ DOMAIN call[4] = {}) => ret = Ok(call[2])

\* the category name 5 with a record of two fields: the mapper raises
C27_FailingInput ==
    /\ MapperReturned
    /\ call[2] = PriorTarget
    /\ call[3] = JNum(5)
    /\ call[4] = ("completions/passingAttempts" :> JStr("4/6") @@ "passingYards" :> JNum(40))
    /\ Raised(ret)

\* with a name that is a str or None the mapper does not raise and leaves the
\* target as it was unless the name is recognized and the record has fields
C27_TextNames ==
    MapperReturned /\ (IsStr(call[3]) \/ call[3] = JNull) =>
        /\ ~Raised(ret)
        /\ (~Recognized(call[3]) \/ DOMAIN call[4] = {}) => ret = Ok(call[2])

\* an unknown name with a record of fields, and a recognized name with an
\* empty field map, leave a written target as it was
C27_UnknownNameWitness ==
    /\ MapperReturned
    /\ call[2] = PriorTarget
    /\ call[3] = JStr("unknown")
    /\ DOMAIN call[4] # {}
    /\ ret = Ok(PriorTarget)
C27_EmptyMapWitness ==
    /\ MapperReturned
    /\ call[2] = PriorTarget
    /\ call[3] = JStr("passing")
    /\ DOMAIN call[4] = {}
    /\ ret = Ok(PriorTarget)

----------------------------------------------------------------------------
(* The team ids of a refined document and the ids of the payload *)

\* the records of an array of the root that are objects with a team object
TeamRecords(box, key) ==
    IF IsObj(box) /\ key \in DOMAIN box[2] /\ IsList(box[2][key])
    THEN {box[2][key][2][i] : i \in {j \in DOMAIN box[2][key][2] :
                                        /\ IsObj(box[2][key][2][j])
                                        /\ "team" \in DOMAIN box[2][key][2][j][2]
                                        /\ IsObj(box[2][key][2][j][2]["team"])}}
    ELSE {}

\* the ids that the team objects of the players and teams arrays carry, as text
SuppliedTeamIds(box) ==
    {PyStr(r[2]["team"][2]["id"]) :
        r \in {x \in TeamRecords(box, "players") \cup TeamRecords(box, "teams") :
                  "id" \in DOMAIN x[2]["team"][2] /\ x[2]["team"][2]["id"] # JNull}}

\* a record of the root whose team object has fields but no id
HasTeamWithoutId(box) ==
    \E r \in TeamRecords(box, "players") \cup TeamRecords(box, "teams") :
        r[2]["team"] # EmptyObj /\ "id" \notin DOMAIN r[2]["team"][2]

\* C28: a record whose team object carries no id gives no team entry: every
\* teamId of a refined document is an id that a team object of the players or
\* teams array of the root carries
C28_TeamIdsSupplied ==
    phase # "input" /\ ~Raised(refined) =>
        \A i \in DOMAIN refined[2]["teams"] :
            refined[2]["teams"][i]["teamId"][2] \in SuppliedTeamIds(get_boxscore_root(raw))

\* a team object with an abbreviation and no id gives a team with the id "None"
C28_FailingInput ==
    /\ phase = "refined"
    /\ ~Raised(refined)
    /\ HasTeamWithoutId(get_boxscore_root(raw))
    /\ "None" \notin SuppliedTeamIds(get_boxscore_root(raw))
    /\ \E i \in DOMAIN refined[2]["teams"] :
          /\ refined[2]["teams"][i]["teamId"] = JStr("None")
          /\ refined[2]["teams"][i]["abbreviation"] = JStr("KC")

\* a record whose team object is empty or whose team is missing is skipped:
\* without a team object that has fields and no id, the ids are supplied ones
C28_EmptyTeamSkipped ==
    phase # "input" /\ ~Raised(refined) /\ ~HasTeamWithoutId(get_boxscore_root(raw)) =>
        \A i \in DOMAIN refined[2]["teams"] :
            refined[2]["teams"][i]["teamId"][2] \in SuppliedTeamIds(get_boxscore_root(raw))

\* a record with an empty team object next to a team with an id: one team
C28_SkippedWitness ==
    /\ phase = "refined"
    /\ ~Raised(refined)
    /\ \E r \in TeamRecords(get_boxscore_root(raw), "players") : r[2]["team"] = EmptyObj
    /\ Len(refined[2]["teams"]) >= 1

----------------------------------------------------------------------------
(* The combined fields of the documents *)

\* the combined fields that a stats object has are strings
CombinedAreStrings(stats) ==
    \A f \in CombinedFields :
        f.cat \in DOMAIN stats /\ f.field \in DOMAIN stats[f.cat] =>
            IsStr(stats[f.cat][f.field])

DocCombinedAreStrings(doc) ==
    \A i \in DOMAIN doc["teams"] :
        /\ CombinedAreStrings(doc["teams"][i]["stats"])
        /\ \A j \in DOMAIN doc["teams"][i]["players"] :
              CombinedAreStrings(doc["teams"][i]["players"][j].stats)

\* C29: in every refined and every merged document the four combined fields
\* of every team and of every player are strings, never bare numbers
C29_CombinedAreStrings ==
    /\ phase # "input" /\ ~Raised(refined) => DocCombinedAreStrings(refined[2])
    /\ phase = "merged" => DocCombinedAreStrings(merged)

\* ADAM, whose raw completions/passingAttempts is "--", has the number 0 in
\* the refined and in the merged document
C29_FailingInput ==
    /\ phase = "merged"
    /\ \E ij \in TeamPlayers(refined[2]) :
          /\ refined[2]["teams"][ij[1]]["players"][ij[2]].fullName = JStr("ADAM")
          /\ refined[2]["teams"][ij[1]]["players"][ij[2]].stats["passing"]
                ["completions/passingAttempts"] = JNum(0)
    /\ \E ij \in TeamPlayers(merged) :
          /\ merged["teams"][ij[1]]["players"][ij[2]].fullName = JStr("ADAM")
          /\ merged["teams"][ij[1]]["players"][ij[2]].stats["passing"]
                ["completions/passingAttempts"] = JNum(0)

\* a field that no record has touched keeps its default string
C29_DefaultWitness ==
    /\ phase = "merged"
    /\ \E ij \in TeamPlayers(merged) :
          /\ merged["teams"][ij[1]]["players"][ij[2]].stats["passing"]["sacks-sackYardsLost"]
                = JStr("0-0")
          /\ merged["teams"][ij[1]]["players"][ij[2]].stats["kicking"]
                ["fieldGoalsMade/fieldGoalAttempts"] = JStr("0/0")

----------------------------------------------------------------------------
(* rosters.py: process_once                                                 *)
(*                                                                          *)
(* po holds a run of process_once after `total = len(teams)` (line 139):    *)
(* the selected teams, skip_existing, concurrency, the roster files that    *)
(* exist, per team the position of its worker, and the counters. With       *)
(* concurrency <= 1 a team is one step of the for loop of lines 161-166;    *)
(* with a thread pool the workers run next to each other and the main       *)
(* thread counts the futures as they complete (lines 168-179). The          *)
(* statement `skipped += 1` of a worker (line 151) reads and writes the     *)
(* variable of the enclosing function without a lock: it is two steps.      *)

MaxTeams == 2

\* the (abbreviations of the) teams that fetch_team_list can return
AllTeams == <<"KC", "BUF", "DAL", "NYJ">>

Min(a, b) == IF a < b THEN a ELSE b

\* what happens to a team that is not skipped: fetch_roster returns None,
\* write_json_atomic returns False or True, or the worker raises
Outcomes == {"fetch_none", "write_failed", "written", "raises"}

\* skip_existing and os.path.exists(path) (line 149)
worker_skips(run, i) == run.skip_existing /\ run.teams[i] \in run.exists

\* the position of a worker after lines 152-156 with an outcome, and the
\* roster files after them
worker_result(outcome) ==
    CASE outcome = "written" -> "ok"
      [] outcome = "raises" -> "raised"
      [] OTHER -> "failed"
files_after(run, i, outcome) ==
    IF outcome = "written" THEN run.exists \cup {run.teams[i]} ELSE run.exists

\* the counters after the main thread has seen the result of a worker
\* (lines 163-166 and 173-179)
count_result(run, i, result) ==
    IF result = "ok"
    THEN [run EXCEPT !.written = @ + 1, !.w[i] = "counted"]
    ELSE [run EXCEPT !.failed = @ + 1, !.w[i] = "counted"]

RosterInit ==
    /\ phase = "rosters"
    /\ \E n \in 0..Min(MaxTeams, Len(AllTeams)) :
       \E skip_existing \in BOOLEAN, concurrency \in {1, 2} :
       \E exists \in SUBSET {AllTeams[i] : i \in 1..n} :
          po = [teams |-> SubSeq(AllTeams, 1, n),
                skip_existing |-> skip_existing,
                concurrency |-> concurrency,
                exists |-> exists,
                w |-> [i \in 1..n |-> "pending"],
                tmp |-> [i \in 1..n |-> 0],
                total |-> n, written |-> 0, skipped |-> 0, failed |-> 0,
                pc |-> "running"]
    /\ raw = JNull
    /\ roster_map = << >>
    /\ refined = JNull
    /\ merged = JNull
    /\ merged2 = JNull
    /\ CallIdle
    /\ LoopIdle

\* the next team of the for loop of line 161
NextTeam(run) ==
    IF \E i \in DOMAIN run.w : run.w[i] = "pending"
    THEN CHOOSE i \in DOMAIN run.w :
            run.w[i] = "pending" /\ \A j \in 1..(i - 1) : run.w[j] # "pending"
    ELSE 0

\* one pass of the for loop of lines 161-166: worker(tpl), then the count; an
\* exception of the worker leaves process_once
SequentialTeam ==
    /\ phase = "rosters"
    /\ po.pc = "running"
    /\ po.concurrency <= 1
    /\ NextTeam(po) # 0
    /\ LET i == NextTeam(po)
       IN  IF worker_skips(po, i)
           THEN po' = count_result([po EXCEPT !.skipped = @ + 1], i, "ok")
           ELSE \E outcome \in Outcomes :
                   po' = IF outcome = "raises"
                         THEN [po EXCEPT !.pc = "raised", !.w[i] = "raised"]
                         ELSE count_result([po EXCEPT !.exists = files_after(po, i, outcome)],
                                           i, worker_result(outcome))
    /\ UNCHANGED <<phase, raw, roster_map, refined, merged, merged2, call, ret, loop_vars>>

\* a thread of the pool takes a team and runs worker up to its return, or up
\* to the read of `skipped += 1`
WorkerRuns(i) ==
    /\ phase = "rosters"
    /\ po.pc = "running"
    /\ po.concurrency > 1
    /\ po.w[i] = "pending"
    /\ Cardinality({j \in DOMAIN po.w : po.w[j] = "incrementing"}) < po.concurrency
    /\ IF worker_skips(po, i)
       THEN po' = [po EXCEPT !.w[i] = "incrementing", !.tmp[i] = po.skipped]
       ELSE \E outcome \in Outcomes :
               po' = [po EXCEPT !.exists = files_after(po, i, outcome),
                                !.w[i] = worker_result(outcome)]
    /\ UNCHANGED <<phase, raw, roster_map, refined, merged, merged2, call, ret, loop_vars>>

\* the write of `skipped += 1` and `return abbr, True` (lines 151-152)
WorkerStores(i) ==
    /\ phase = "rosters"
    /\ po.pc = "running"
    /\ po.w[i] = "incrementing"
    /\ po' = [po EXCEPT !.skipped = po.tmp[i] + 1, !.w[i] = "ok"]
    /\ UNCHANGED <<phase, raw, roster_map, refined, merged, merged2, call, ret, loop_vars>>

\* as_completed yields the future of a worker that is done (lines 170-179)
FutureCompleted(i) ==
    /\ phase = "rosters"
    /\ po.pc = "running"
    /\ po.concurrency > 1
    /\ po.w[i] \in {"ok", "failed", "raised"}
    /\ po' = count_result(po, i, po.w[i])
    /\ UNCHANGED <<phase, raw, roster_map, refined, merged, merged2, call, ret, loop_vars>>

\* return {"total": ..., "written": ..., "skipped": ..., "failed": ...} (line 183)
ReturnSummary ==
    /\ phase = "rosters"
    /\ po.pc = "running"
    /\ \A i \in DOMAIN po.w : po.w[i] = "counted"
    /\ po' = [po EXCEPT !.pc = "returned"]
    /\ UNCHANGED <<phase, raw, roster_map, refined, merged, merged2, call, ret, loop_vars>>

RosterNext ==
    \/ SequentialTeam
    \/ \E i \in 1..Len(AllTeams) : i \in DOMAIN po.w /\ WorkerRuns(i)
    \/ \E i \in 1..Len(AllTeams) : i \in DOMAIN po.w /\ WorkerStores(i)
    \/ \E i \in 1..Len(AllTeams) : i \in DOMAIN po.w /\ FutureCompleted(i)
    \/ ReturnSummary

RosterSpec == RosterInit /\ [][RosterNext]_vars

\* process_once has returned its summary
Returned == phase = "rosters" /\ po.pc = "returned"

\* C30: the summary that process_once returns satisfies
\* written + skipped + failed = total: every selected team is counted in
\* exactly one of the three, sequentially and with a thread pool
C30_CountsAddUp ==
    Returned => po.written + po.skipped + po.failed = po.total

\* sequential, skip_existing, one team whose roster file exists: the team is
\* counted as skipped and as written
C30_FailingInput ==
    /\ Returned
    /\ po.concurrency = 1
    /\ po.skip_existing
    /\ po.teams = <<"KC">>
    /\ po.exists = {"KC"}
    /\ po.total = 1
    /\ po.written = 1
    /\ po.skipped = 1
    /\ po.failed = 0

\* every selected team is counted in exactly one of written and failed
C30_WrittenOrFailed ==
    Returned => po.written + po.failed = po.total

\* with a thread pool two workers that skip can leave skipped at 1
C30_LostUpdate ==
    /\ Returned
    /\ po.concurrency = 2
    /\ po.skip_existing
    /\ po.exists = {"KC", "BUF"}
    /\ po.total = 2
    /\ po.written = 2
    /\ po.skipped = 1

\* without a skipped team the counts add up, also when fetches and writes fail
C30_NoSkipWitness ==
    /\ Returned
    /\ po.concurrency = 2
    /\ po.total = 2
    /\ po.written = 1
    /\ po.failed = 1
    /\ po.skipped = 0

====
